---- MODULE Spec2Model ----
(***************************************************************************)
(* Model of the identifier transcoding codec of usd-exchange                *)
(* (Transcoding.cpp: base-62 digits, BinaryIndexedTree, variable-length     *)
(* integers, Bootstring encode/decode, encodeIdentifier/decodeIdentifier).  *)
(*                                                                          *)
(* A std::string is modelled as the sequence of items TfUtf8CodePointView   *)
(* iterates over: one integer per well-formed UTF-8 code point, and BadByte *)
(* for one malformed byte.  The prefix and the delimiter are ASCII, so the  *)
(* byte comparisons of the code (substr(0, 4) == prefix, output == input +  *)
(* delimiter) coincide with comparisons of these sequences.                 *)
(***************************************************************************)
EXTENDS Integers, Sequences, FiniteSets, TLC

\* ------------------------------------------------------------------ bounds
\* longest body of an input string (the part after the optional prefix)
MaxLen == 3
\* width of the scaled-down uint64_t (delta, number, weight, tree counters)
AccBits == 29
\* width of the scaled-down code_t (uint32_t); narrower than the accumulator
\* and wider than MAX_CODE_POINT, as in the program
CodeBits == 24

\* --------------------------------------------------------------- constants
BASE62 == 62
BOOTSTRING_DELIMITER == 95
BOOTSTRING_THRESHOLD == 31
MAX_CODE_POINT == 1114111
BOOTSTRING_PREFIX == <<116, 110, 95, 95>>
\* TfUtf8InvalidCodePoint, U+FFFD
TfUtf8InvalidCodePoint == 65533
\* one malformed byte of a std::string
BadByte == 0 - 1

RECURSIVE Pow2(_)
Pow2(n) == IF n = 0 THEN 1 ELSE 2 * Pow2(n - 1)

\* std::numeric_limits<uint64_t>::max(), scaled to AccBits
UINT64_MAX == Pow2(AccBits) - 1
\* number of values of code_t, scaled to CodeBits
CODE_T_MOD == Pow2(CodeBits)

\* ------------------------------------------------------------ TfUtf8 layer
\* what *it yields for one item of the string: a malformed byte is reported
\* as the replacement code point
AsUInt32(item) == IF item = BadByte THEN TfUtf8InvalidCodePoint ELSE item

\* TfUtf8CodePointView{ s }: the code points the iterator yields
TfUtf8CodePointView(s) == [i \in 1..Len(s) |-> AsUInt32(s[i])]

\* TfUtf8CodePoint(value) as written by operator<<: a surrogate or a value
\* above the maximum becomes the replacement code point
TfUtf8CodePoint(value) ==
    IF value <= MAX_CODE_POINT /\ ~(value >= 55296 /\ value <= 57343)
    THEN value ELSE TfUtf8InvalidCodePoint

\* TfIsUtf8CodePointXidStart, on the code point ranges below U+0370
TfIsUtf8CodePointXidStart(v) ==
    \/ (v >= 65 /\ v <= 90)
    \/ (v >= 97 /\ v <= 122)
    \/ v = 170 \/ v = 181 \/ v = 186
    \/ (v >= 192 /\ v <= 214)
    \/ (v >= 216 /\ v <= 246)
    \/ (v >= 248 /\ v <= 705)

\* TfIsUtf8CodePointXidContinue, on the code point ranges below U+0370
TfIsUtf8CodePointXidContinue(v) ==
    \/ TfIsUtf8CodePointXidStart(v)
    \/ (v >= 48 /\ v <= 57)
    \/ v = 95
    \/ v = 183
    \/ (v >= 768 /\ v <= 879)

\* ------------------------------------------------------------------ Base62
\* encodeBase62 with the lower-case digits based at '_' instead of 'a'
encodeBase62_LowerFromUnderscore(digit) ==
    IF digit <= 9 THEN digit + 48
    ELSE IF digit >= 10 /\ digit <= 35 THEN digit - 10 + 65
    ELSE digit - 36 + 95

encodeBase62(digit) ==
    IF digit <= 9 THEN digit + 48
    ELSE IF digit >= 10 /\ digit <= 35 THEN digit - 10 + 65
    ELSE digit - 36 + 97

\* decodeBase62 that returns BASE62 for a character that is no digit
decodeBase62_SentinelIsBase(character) ==
    IF character >= 48 /\ character <= 57 THEN character - 48
    ELSE IF character >= 65 /\ character <= 90 THEN character - 65 + 10
    ELSE IF character >= 97 /\ character <= 122 THEN character - 97 + 36
    ELSE BASE62

\* character is a char: one byte
decodeBase62(character) ==
    IF character >= 48 /\ character <= 57 THEN character - 48
    ELSE IF character >= 65 /\ character <= 90 THEN character - 65 + 10
    ELSE IF character >= 97 /\ character <= 122 THEN character - 97 + 36
    ELSE BASE62 + 1

\* static_cast<char>(codePoint): the low byte of the code point
StaticCastChar(codePoint) == codePoint % 256

\* ------------------------------------------------------- BinaryIndexedTree
\* idx & (0 - idx): the lowest set bit of idx
RECURSIVE LowBit(_)
LowBit(idx) == IF idx % 2 = 1 THEN 1 ELSE 2 * LowBit(idx \div 2)

\* a | b
RECURSIVE BitOr(_, _)
BitOr(a, b) ==
    IF a = 0 THEN b
    ELSE IF b = 0 THEN a
    ELSE (IF a % 2 = 1 \/ b % 2 = 1 THEN 1 ELSE 0) + 2 * BitOr(a \div 2, b \div 2)

\* the constructor's loop: while (v >>= 1) ++most_significant_bit
RECURSIVE MsbLoop(_, _)
MsbLoop(v, msb) == IF v \div 2 = 0 THEN msb ELSE MsbLoop(v \div 2, msb + 1)

\* BinaryIndexedTree(n): tree(n + 1, 0); tree[k] of the code is tree[k] here
BinaryIndexedTree(n) ==
    [tree |-> [k \in 0..n |-> 0], most_significant_bit |-> MsbLoop(n + 1, 0)]

TreeSize(t) == Cardinality(DOMAIN t.tree)

\* the loop of increase stepping to the next index instead of adding the
\* lowest set bit
RECURSIVE IncreaseLoop_NextIndex(_, _)
IncreaseLoop_NextIndex(t, idx) ==
    IF idx < TreeSize(t)
    THEN IncreaseLoop_NextIndex([t EXCEPT !.tree[idx] = (@ + 1) % (UINT64_MAX + 1)], idx + 1)
    ELSE t

RECURSIVE IncreaseLoop(_, _)
IncreaseLoop(t, idx) ==
    IF idx < TreeSize(t)
    THEN IncreaseLoop([t EXCEPT !.tree[idx] = (@ + 1) % (UINT64_MAX + 1)], idx + LowBit(idx))
    ELSE t

increase(t, i) == IncreaseLoop(t, i + 1)

RECURSIVE DecreaseLoop(_, _)
DecreaseLoop(t, idx) ==
    IF idx < TreeSize(t)
    THEN DecreaseLoop([t EXCEPT !.tree[idx] = (@ + UINT64_MAX) % (UINT64_MAX + 1)], idx + LowBit(idx))
    ELSE t

\* decrease that leaves the tree as it is
decrease_Skipped(t, i) == t

decrease(t, i) == DecreaseLoop(t, i + 1)

\* the loop of increaseAll without the addition to the parent node
RECURSIVE IncreaseAllLoop_NoParent(_, _)
IncreaseAllLoop_NoParent(t, i) ==
    IF i < TreeSize(t) - 1
    THEN IncreaseAllLoop_NoParent([t EXCEPT !.tree[i + 1] = (@ + 1) % (UINT64_MAX + 1)], i + 1)
    ELSE t

RECURSIVE IncreaseAllLoop(_, _)
IncreaseAllLoop(t, i) ==
    IF i < TreeSize(t) - 1
    THEN LET t1 == [t EXCEPT !.tree[i + 1] = (@ + 1) % (UINT64_MAX + 1)]
             idx == (i + 1) + LowBit(i + 1)
             t2 == IF idx < TreeSize(t)
                   THEN [t1 EXCEPT !.tree[idx] = (@ + t1.tree[i + 1]) % (UINT64_MAX + 1)]
                   ELSE t1
         IN IncreaseAllLoop(t2, i + 1)
    ELSE t

increaseAll(t) == IncreaseAllLoop(t, 0)

RECURSIVE SumLoop(_, _, _)
SumLoop(t, idx, acc) ==
    IF idx > 0
    THEN SumLoop(t, idx - LowBit(idx), (acc + t.tree[idx]) % (UINT64_MAX + 1))
    ELSE acc

sum(t, i) == SumLoop(t, i + 1, 0)

None == [ok |-> FALSE]

\* the loop of lower descending when tree[current] <= sum instead of < sum
RECURSIVE LowerLoop_AtMost(_, _, _, _)
LowerLoop_AtMost(t, idx, bitmask, s) ==
    IF bitmask > 0
    THEN LET current == BitOr(idx, bitmask)
         IN IF current < TreeSize(t) /\ t.tree[current] <= s
            THEN LowerLoop_AtMost(t, current, bitmask \div 2, s - t.tree[current])
            ELSE LowerLoop_AtMost(t, idx, bitmask \div 2, s)
    ELSE IF s > 1 THEN None ELSE [ok |-> TRUE, index |-> idx]

RECURSIVE LowerLoop(_, _, _, _)
LowerLoop(t, idx, bitmask, s) ==
    IF bitmask > 0
    THEN LET current == BitOr(idx, bitmask)
         IN IF current < TreeSize(t) /\ t.tree[current] < s
            THEN LowerLoop(t, current, bitmask \div 2, s - t.tree[current])
            ELSE LowerLoop(t, idx, bitmask \div 2, s)
    ELSE IF s > 1 THEN None ELSE [ok |-> TRUE, index |-> idx]

lower(t, s) == LowerLoop(t, 0, Pow2(t.most_significant_bit), s)

\* -------------------------------------------------------- format functions
IsASCIIStart(value) ==
    (value >= 65 /\ value <= 90) \/ value = 95 \/ (value >= 97 /\ value <= 122)

IsASCIIContinue(value) ==
    \/ (value >= 48 /\ value <= 57)
    \/ (value >= 65 /\ value <= 90)
    \/ value = 95
    \/ (value >= 97 /\ value <= 122)

IsStart(value, format) ==
    IF format = "ASCII" THEN IsASCIIStart(value)
    ELSE IF format = "UTF8_XID" THEN IsASCIIStart(value) \/ TfIsUtf8CodePointXidStart(value)
    ELSE FALSE

IsContinue(value, format) ==
    IF format = "ASCII" THEN IsASCIIContinue(value)
    ELSE IF format = "UTF8_XID" THEN TfIsUtf8CodePointXidContinue(value)
    ELSE FALSE

\* --------------------------------------------------------------- Bootstring
\* the characters encodeVariableLength appends to the stream
RECURSIVE encodeVariableLength(_)
encodeVariableLength(number) ==
    IF number >= BOOTSTRING_THRESHOLD
    THEN LET digit == BOOTSTRING_THRESHOLD
                      + ((number - BOOTSTRING_THRESHOLD) % (BASE62 - BOOTSTRING_THRESHOLD))
         IN <<encodeBase62(digit)>>
            \o encodeVariableLength((number - BOOTSTRING_THRESHOLD) \div (BASE62 - BOOTSTRING_THRESHOLD))
    ELSE <<encodeBase62(number)>>

\* DecodeVariableLengthLoop that returns the number accumulated so far, instead
\* of failing, when the stream ends before a terminal digit
RECURSIVE DecodeVariableLengthLoop_EndIsSuccess(_, _, _, _)
DecodeVariableLengthLoop_EndIsSuccess(cps, it, number, weight) ==
    IF it > Len(cps) THEN [ok |-> TRUE, number |-> number, it |-> it]
    ELSE LET codePoint == cps[it]
         IN IF codePoint > MAX_CODE_POINT THEN None
            ELSE LET digit == decodeBase62(StaticCastChar(codePoint))
                 IN IF digit > BASE62 THEN None
                    ELSE IF digit > (UINT64_MAX - number) \div weight THEN None
                    ELSE IF digit < BOOTSTRING_THRESHOLD
                         THEN [ok |-> TRUE, number |-> number + digit * weight, it |-> it + 1]
                    ELSE IF weight > UINT64_MAX \div (BASE62 - BOOTSTRING_THRESHOLD) THEN None
                    ELSE DecodeVariableLengthLoop_EndIsSuccess(cps, it + 1, number + digit * weight,
                                                  weight * (BASE62 - BOOTSTRING_THRESHOLD))

\* the while (true) loop of decodeVariableLength; cps is the view the
\* iterator walks, it its position (Len(cps) + 1 is the past-the-end sentinel)
RECURSIVE DecodeVariableLengthLoop(_, _, _, _)
DecodeVariableLengthLoop(cps, it, number, weight) ==
    IF it > Len(cps) THEN None
    ELSE LET codePoint == cps[it]
         IN IF codePoint > MAX_CODE_POINT THEN None
            ELSE LET digit == decodeBase62(StaticCastChar(codePoint))
                 IN IF digit > BASE62 THEN None
                    ELSE IF digit > (UINT64_MAX - number) \div weight THEN None
                    ELSE IF digit < BOOTSTRING_THRESHOLD
                         THEN [ok |-> TRUE, number |-> number + digit * weight, it |-> it + 1]
                    ELSE IF weight > UINT64_MAX \div (BASE62 - BOOTSTRING_THRESHOLD) THEN None
                    ELSE DecodeVariableLengthLoop(cps, it + 1, number + digit * weight,
                                                  weight * (BASE62 - BOOTSTRING_THRESHOLD))

decodeVariableLength(cps, it) == DecodeVariableLengthLoop(cps, it, 0, 1)

\* std::tuple<uint32_t, size_t> operator<
TupleLess(a, b) == a[1] < b[1] \/ (a[1] = b[1] /\ a[2] < b[2])

\* std::sort that leaves the vector in insertion order
StdSort_Unsorted(v) == v

\* std::sort(extendedCodes.begin(), extendedCodes.end())
RECURSIVE StdSort(_)
StdSort(v) ==
    IF Len(v) <= 1 THEN v
    ELSE LET m == CHOOSE i \in 1..Len(v) : \A j \in 1..Len(v) : j = i \/ TupleLess(v[i], v[j]) \/ v[i] = v[j]
             rest == [k \in 1..(Len(v) - 1) |-> IF k < m THEN v[k] ELSE v[k + 1]]
         IN <<v[m]>> \o StdSort(rest)

\* first loop of encodeBootstring: TRUE when some item is the invalid code point
HasInvalidCodePoint(cps) == \E i \in 1..Len(cps) : cps[i] = TfUtf8InvalidCodePoint

\* first loop of encodeBootstring: the continue-eligible code points written to oss
RECURSIVE BasicCodePoints(_, _)
BasicCodePoints(cps, format) ==
    IF cps = <<>> THEN <<>>
    ELSE (IF IsContinue(Head(cps), format) THEN <<Head(cps)>> ELSE <<>>)
         \o BasicCodePoints(Tail(cps), format)

\* second loop of encodeBootstring: the tree, the extended codes and the count
\* of encoded points after code position codePosition (0-based) onwards
RECURSIVE EncodeScanLoop(_, _, _, _)
EncodeScanLoop(cps, format, codePosition, st) ==
    IF codePosition >= Len(cps) THEN st
    ELSE LET value == cps[codePosition + 1]
         IN IF IsContinue(value, format)
            THEN EncodeScanLoop(cps, format, codePosition + 1,
                     [st EXCEPT !.tree = increase(st.tree, codePosition),
                                !.encodedPoints = @ + 1])
            ELSE EncodeScanLoop(cps, format, codePosition + 1,
                     [st EXCEPT !.extendedCodes = Append(@, <<value, codePosition>>)])

\* third loop of encodeBootstring, over the sorted extended codes from index k
RECURSIVE EncodeDeltaLoop(_, _, _, _, _, _)
EncodeDeltaLoop(ext, k, tree, prevCodePoint, encodedPoints, oss) ==
    IF k > Len(ext) THEN [ok |-> TRUE, str |-> oss]
    ELSE LET codePoint == ext[k][1]
             codePosition == ext[k][2]
             delta0 == sum(tree, codePosition)
         IN IF codePoint - prevCodePoint > (UINT64_MAX - delta0) \div (encodedPoints + 1)
            THEN None
            ELSE LET delta == delta0 + (codePoint - prevCodePoint) * (encodedPoints + 1)
                 IN EncodeDeltaLoop(ext, k + 1, increase(tree, codePosition), codePoint,
                                    encodedPoints + 1, oss \o encodeVariableLength(delta))

\* encodeBootstring that never writes the delimiter after the skeleton
encodeBootstring_NoDelimiter(inputString, format) ==
    LET cps == TfUtf8CodePointView(inputString)
    IN IF HasInvalidCodePoint(cps) THEN None
       ELSE LET basic == BasicCodePoints(cps, format)
                oss == basic
                st == EncodeScanLoop(cps, format, 0,
                          [tree |-> BinaryIndexedTree(Len(cps)), extendedCodes |-> <<>>,
                           encodedPoints |-> 0])
            IN EncodeDeltaLoop(StdSort(st.extendedCodes), 1, st.tree, 0, st.encodedPoints, oss)

encodeBootstring(inputString, format) ==
    LET cps == TfUtf8CodePointView(inputString)
    IN IF HasInvalidCodePoint(cps) THEN None
       ELSE LET basic == BasicCodePoints(cps, format)
                oss == IF Len(basic) > 0 THEN Append(basic, BOOTSTRING_DELIMITER) ELSE basic
                st == EncodeScanLoop(cps, format, 0,
                          [tree |-> BinaryIndexedTree(Len(cps)), extendedCodes |-> <<>>,
                           encodedPoints |-> 0])
            IN EncodeDeltaLoop(StdSort(st.extendedCodes), 1, st.tree, 0, st.encodedPoints, oss)

\* first loop of decodeBootstring: position of the last delimiter, 0 when none
RECURSIVE DelimiterPositionLoop(_, _, _)
DelimiterPositionLoop(cps, position, delimiterPosition) ==
    IF position >= Len(cps) THEN delimiterPosition
    ELSE DelimiterPositionLoop(cps, position + 1,
             IF cps[position + 1] = BOOTSTRING_DELIMITER THEN position ELSE delimiterPosition)

\* the delta loop of decodeBootstring, iterator at it
RECURSIVE DecodeDeltaLoop(_, _, _, _, _)
DecodeDeltaLoop(cps, it, decodedPoints, codePoint, values) ==
    IF it > Len(cps) THEN [ok |-> TRUE, values |-> values]
    ELSE LET ret == decodeVariableLength(cps, it)
         IN IF ~ret.ok THEN None
            ELSE LET value == ret.number
                     cp == (codePoint + ((value \div (decodedPoints + 1)) % CODE_T_MOD)) % CODE_T_MOD
                     position == value % (decodedPoints + 1)
                 IN DecodeDeltaLoop(cps, ret.it, decodedPoints + 1, cp,
                                    Append(values, <<cp, position>>))

\* the reverse placement loop of decodeBootstring, from values[k] down to values[1]
RECURSIVE DecodePlaceLoop(_, _, _, _)
DecodePlaceLoop(values, k, tree, codePoints) ==
    IF k < 1 THEN [ok |-> TRUE, codePoints |-> codePoints, tree |-> tree]
    ELSE LET ret == lower(tree, values[k][2] + 1)
         IN IF ~ret.ok THEN None
            ELSE DecodePlaceLoop(values, k - 1, decrease(tree, ret.index),
                                 [codePoints EXCEPT ![ret.index] = values[k][1]])

decodeBootstring(inputString) ==
    LET cps == TfUtf8CodePointView(inputString)
    IN IF HasInvalidCodePoint(cps) THEN None
       ELSE LET delimiterPosition == DelimiterPositionLoop(cps, 0, 0)
                basic == IF delimiterPosition > 0
                         THEN [i \in 1..delimiterPosition |-> <<cps[i], i - 1>>]
                         ELSE <<>>
                it == IF delimiterPosition > 0 THEN delimiterPosition + 2 ELSE 1
                dec == DecodeDeltaLoop(cps, it, Len(basic), 0, basic)
            IN IF ~dec.ok THEN None
               ELSE LET values == dec.values
                        placed == DecodePlaceLoop(values, Len(values),
                                       increaseAll(BinaryIndexedTree(Len(values))),
                                       [i \in 0..(Len(values) - 1) |-> 0])
                    IN IF ~placed.ok THEN None
                       ELSE [ok |-> TRUE,
                             str |-> [i \in 1..Len(values) |-> TfUtf8CodePoint(placed.codePoints[i - 1])]]

\* ------------------------------------------------ encode / decodeIdentifier
\* encodeIdentifier without the unchanged-input test: always the prefixed form
encodeIdentifier_AlwaysPrefixed(inputString, format) ==
    LET ret == encodeBootstring(inputString, format)
    IN IF ~ret.ok THEN <<>> ELSE BOOTSTRING_PREFIX \o ret.str

\* encodeIdentifier that returns an unchanged input without testing its start
encodeIdentifier_NoStartTest(inputString, format) ==
    LET ret == encodeBootstring(inputString, format)
    IN IF ~ret.ok THEN <<>>
       ELSE IF ret.str = Append(inputString, BOOTSTRING_DELIMITER)
            THEN inputString
            ELSE BOOTSTRING_PREFIX \o ret.str

\* encodeIdentifier that returns the bare prefix when the encoding fails
encodeIdentifier_FailureReturnsPrefix(inputString, format) ==
    LET ret == encodeBootstring(inputString, format)
    IN IF ~ret.ok THEN BOOTSTRING_PREFIX
       ELSE LET output == ret.str
                result == BOOTSTRING_PREFIX \o output
            IN IF output = Append(inputString, BOOTSTRING_DELIMITER)
               THEN IF IsStart(AsUInt32(inputString[1]), format) THEN inputString ELSE result
               ELSE result

\* encodeIdentifier that returns an empty encoder output without the prefix
encodeIdentifier_EmptyUnprefixed(inputString, format) ==
    LET ret == encodeBootstring(inputString, format)
    IN IF ~ret.ok THEN <<>>
       ELSE LET output == ret.str
                result == IF output = <<>> THEN output ELSE BOOTSTRING_PREFIX \o output
            IN IF output = Append(inputString, BOOTSTRING_DELIMITER)
               THEN IF IsStart(AsUInt32(inputString[1]), format) THEN inputString ELSE result
               ELSE result

encodeIdentifier(inputString, format) ==
    LET ret == encodeBootstring(inputString, format)
    IN IF ~ret.ok THEN <<>>
       ELSE LET output == ret.str
                result == BOOTSTRING_PREFIX \o output
            IN IF output = Append(inputString, BOOTSTRING_DELIMITER)
               THEN IF IsStart(AsUInt32(inputString[1]), format) THEN inputString ELSE result
               ELSE result

\* inputString.substr(pos, count)
Substr(str, pos, count) ==
    IF pos >= Len(str) THEN <<>>
    ELSE SubSeq(str, pos + 1, IF pos + count > Len(str) THEN Len(str) ELSE pos + count)

\* decodeIdentifierCall that compares only the first three bytes with the prefix
decodeIdentifierCall_ThreeBytePrefix(inputString) ==
    IF Substr(inputString, 0, 3) = SubSeq(BOOTSTRING_PREFIX, 1, 3)
    THEN LET ret == decodeBootstring(Substr(inputString, 4, Len(inputString) - 1))
         IN [str |-> IF ~ret.ok THEN inputString ELSE ret.str, decoder |-> TRUE]
    ELSE [str |-> inputString, decoder |-> FALSE]

\* decodeIdentifier with the record of whether it called decodeBootstring
decodeIdentifierCall(inputString) ==
    IF Substr(inputString, 0, 4) = BOOTSTRING_PREFIX
    THEN LET ret == decodeBootstring(Substr(inputString, 4, Len(inputString) - 1))
         IN [str |-> IF ~ret.ok THEN inputString ELSE ret.str, decoder |-> TRUE]
    ELSE [str |-> inputString, decoder |-> FALSE]

decodeIdentifier(inputString) == decodeIdentifierCall(inputString).str

\* ------------------------------------------------------------ state machine
\* code points of the input bodies: NUL, '0', '_', 'a', U+0130 (an XID start
\* whose low byte is '0'), U+2603 (outside both profiles), U+FFFD, and one
\* malformed byte
Alphabet == {0, 48, 95, 97, 304, 9731, TfUtf8InvalidCodePoint, BadByte}

Formats == {"ASCII", "UTF8_XID"}

Bodies == UNION {[1..n -> Alphabet] : n \in 0..MaxLen}

\* the leading parts of the prefix an input may start with
Prefixes == {SubSeq(BOOTSTRING_PREFIX, 1, k) : k \in 0..Len(BOOTSTRING_PREFIX)}

Inputs == {p \o b : p \in Prefixes, b \in Bodies}

VARIABLES inputString, format, pc, encoded, decodeArg, decoded, decoderCalled, reencoded

\* the callers of makeValidIdentifier: the environment setting, the guard and
\* the value of the function-local static, the number of times the setting was
\* read, each thread's position in the call and the value of the static it
\* observed, and the argument and result of the call that returned last
VARIABLES envSetting, s_guard, s_enableOmniTranscoding, settingReads, thread, lastCall

\* one call of encodeBootstring or decodeBootstring in progress: its position
\* and its locals
VARIABLES eng

\* one BinaryIndexedTree object, the per-slot counts its callers have put in,
\* and the last call made on it
VARIABLES bit, counts, treeCall

\* one call of encodeVariableLength, decodeVariableLength, encodeBase62 or
\* decodeBase62: its position and its locals
VARIABLES vl

\* one loop of a BinaryIndexedTree member function: its position and locals
VARIABLES loop

codecVars ==
    <<inputString, format, pc, encoded, decodeArg, decoded, decoderCalled, reencoded>>

validVars == <<envSetting, s_guard, s_enableOmniTranscoding, settingReads, thread, lastCall>>

treeVars == <<bit, counts, treeCall>>

vars == <<codecVars, validVars, eng, treeVars, vl, loop>>

\* no thread exists and the static is untouched
ValidOff ==
    /\ envSetting = TRUE
    /\ s_guard = "uninit"
    /\ s_enableOmniTranscoding = FALSE
    /\ settingReads = 0
    /\ thread = <<>>
    /\ lastCall = [returned |-> FALSE]

\* no engine call is in progress
EngOff == eng = [pc |-> "off"]

\* no tree object exists
TreeOff ==
    /\ bit = [tree |-> <<>>, most_significant_bit |-> 0]
    /\ counts = <<>>
    /\ treeCall = [op |-> "off", arg |-> 0]

\* no integer or digit is being encoded or decoded
VarLenOff == vl = [pc |-> "off"]

\* no loop of the tree is running
LoopOff == loop = [pc |-> "off"]

\* no identifier is being encoded or decoded
CodecOff ==
    /\ inputString = <<>>
    /\ format = "ASCII"
    /\ pc = "off"
    /\ encoded = <<>>
    /\ decodeArg = <<>>
    /\ decoded = <<>>
    /\ decoderCalled = FALSE
    /\ reencoded = <<>>

Init ==
    /\ inputString \in Inputs
    /\ format \in Formats
    /\ pc = "start"
    /\ encoded = <<>>
    /\ decodeArg = <<>>
    /\ decoded = <<>>
    /\ decoderCalled = FALSE
    /\ reencoded = <<>>
    /\ ValidOff
    /\ EngOff
    /\ TreeOff
    /\ VarLenOff
    /\ LoopOff

\* a caller encodes the input
EncodeIdentifier ==
    /\ pc = "start"
    /\ encoded' = encodeIdentifier(inputString, format)
    /\ pc' = "encoded"
    /\ UNCHANGED <<inputString, format, decodeArg, decoded, decoderCalled, reencoded>>
    /\ UNCHANGED <<validVars, eng, treeVars, vl, loop>>

\* a caller decodes the input as it is
DecodeIdentifier ==
    /\ pc = "start"
    /\ decodeArg' = inputString
    /\ decoded' = decodeIdentifierCall(inputString).str
    /\ decoderCalled' = decodeIdentifierCall(inputString).decoder
    /\ pc' = "decoded"
    /\ UNCHANGED <<inputString, format, encoded, reencoded>>
    /\ UNCHANGED <<validVars, eng, treeVars, vl, loop>>

\* a caller decodes what encodeIdentifier returned
DecodeEncoded ==
    /\ pc = "encoded"
    /\ decodeArg' = encoded
    /\ decoded' = decodeIdentifierCall(encoded).str
    /\ decoderCalled' = decodeIdentifierCall(encoded).decoder
    /\ pc' = "roundtrip"
    /\ UNCHANGED <<inputString, format, encoded, reencoded>>
    /\ UNCHANGED <<validVars, eng, treeVars, vl, loop>>

\* a caller decodes what encodeIdentifier returned with its last character removed
DecodeTruncated ==
    /\ pc = "encoded"
    /\ Len(encoded) > 0
    /\ LET t == SubSeq(encoded, 1, Len(encoded) - 1)
       IN /\ decodeArg' = t
          /\ decoded' = decodeIdentifierCall(t).str
          /\ decoderCalled' = decodeIdentifierCall(t).decoder
    /\ pc' = "truncated"
    /\ UNCHANGED <<inputString, format, encoded, reencoded>>
    /\ UNCHANGED <<validVars, eng, treeVars, vl, loop>>

\* a caller encodes what encodeIdentifier returned
EncodeEncoded ==
    /\ pc = "encoded"
    /\ reencoded' = encodeIdentifier(encoded, format)
    /\ pc' = "reencoded"
    /\ UNCHANGED <<inputString, format, encoded, decodeArg, decoded, decoderCalled>>
    /\ UNCHANGED <<validVars, eng, treeVars, vl, loop>>

Next ==
    \/ EncodeIdentifier
    \/ DecodeIdentifier
    \/ DecodeEncoded
    \/ DecodeTruncated
    \/ EncodeEncoded

Spec == Init /\ [][Next]_vars

\* ------------------------------------------------------ makeValidIdentifier
\* longest argument of makeValidIdentifier
MaxIdLen == 2
\* number of threads that call makeValidIdentifier
NumThreads == 2

Threads == 1..NumThreads

\* items of the arguments: NUL, '0', 'a', U+2603 and one malformed byte
IdAlphabet == {0, 48, 97, 9731, BadByte}

IdInputs == UNION {[1..n -> IdAlphabet] : n \in 0..MaxIdLen}

\* the bytes one item of a std::string occupies: the UTF-8 form of a code
\* point, the byte 0xFF for a malformed byte
Utf8Bytes(item) ==
    IF item = BadByte THEN <<255>>
    ELSE IF item < 128 THEN <<item>>
    ELSE IF item < 2048 THEN <<192 + (item \div 64), 128 + (item % 64)>>
    ELSE IF item < 65536
         THEN <<224 + (item \div 4096), 128 + ((item \div 64) % 64), 128 + (item % 64)>>
    ELSE <<240 + (item \div 262144), 128 + ((item \div 4096) % 64),
           128 + ((item \div 64) % 64), 128 + (item % 64)>>

\* the bytes of the std::string in
RECURSIVE StdStringBytes(_)
StdStringBytes(in) ==
    IF in = <<>> THEN <<>> ELSE Utf8Bytes(Head(in)) \o StdStringBytes(Tail(in))

\* ('a' <= *p && *p <= 'z') || ('A' <= *p && *p <= 'Z') || *p == '_'
IsIdentifierStartByte(c) ==
    (c >= 97 /\ c <= 122) \/ (c >= 65 /\ c <= 90) \/ c = 95

\* the test of the loop: letter, digit or '_'
IsIdentifierByte(c) ==
    (c >= 97 /\ c <= 122) \/ (c >= 65 /\ c <= 90) \/ (c >= 48 /\ c <= 57) \/ c = 95

\* for (++p; *p; ++p) over the NUL-terminated bytes cstr, p 1-based
RECURSIVE ExtendedLoop(_, _, _)
ExtendedLoop(cstr, p, result) ==
    IF cstr[p] = 0 THEN result
    ELSE ExtendedLoop(cstr, p + 1,
                      Append(result, IF ~IsIdentifierByte(cstr[p]) THEN 95 ELSE cstr[p]))

\* makeValidIdentifierExtended that keeps a leading digit without the '_' in front
makeValidIdentifierExtended_DigitKept(in) ==
    IF in = <<>> THEN <<95>>
    ELSE LET cstr == Append(in, 0)
             first == IF cstr[1] >= 48 /\ cstr[1] <= 57 THEN <<cstr[1]>>
                      ELSE IF ~IsIdentifierStartByte(cstr[1]) THEN <<95>>
                      ELSE <<cstr[1]>>
         IN ExtendedLoop(cstr, 2, first)

\* in: the bytes of the argument; cstr is in.c_str()
makeValidIdentifierExtended(in) ==
    IF in = <<>> THEN <<95>>
    ELSE LET cstr == Append(in, 0)
             first == IF cstr[1] >= 48 /\ cstr[1] <= 57 THEN <<95, cstr[1]>>
                      ELSE IF ~IsIdentifierStartByte(cstr[1]) THEN <<95>>
                      ELSE <<cstr[1]>>
         IN ExtendedLoop(cstr, 2, first)

\* the body of makeValidIdentifier without the fallback on an empty result
makeValidIdentifierBody_NoFallback(in, enabled) ==
    IF enabled
    THEN [out |-> encodeIdentifier(in, "ASCII"), enc |-> TRUE, sub |-> FALSE]
    ELSE [out |-> makeValidIdentifierExtended(StdStringBytes(in)), enc |-> FALSE, sub |-> TRUE]

\* the body of makeValidIdentifier after the static is initialised: the
\* result, whether the Bootstring encoder was called, and whether
\* makeValidIdentifierExtended was called
makeValidIdentifierBody(in, enabled) ==
    IF enabled
    THEN LET out == encodeIdentifier(in, "ASCII")
         IN IF out = <<>>
            THEN [out |-> makeValidIdentifierExtended(StdStringBytes(in)),
                  enc |-> TRUE, sub |-> TRUE]
            ELSE [out |-> out, enc |-> TRUE, sub |-> FALSE]
    ELSE [out |-> makeValidIdentifierExtended(StdStringBytes(in)), enc |-> FALSE, sub |-> TRUE]

\* a thread about to enter makeValidIdentifier
FreshCall == [pc |-> "call", flag |-> FALSE]

\* no call has returned yet
NoCall == [returned |-> FALSE]

InitValid ==
    /\ CodecOff
    /\ EngOff
    /\ TreeOff
    /\ VarLenOff
    /\ LoopOff
    /\ envSetting \in BOOLEAN
    /\ s_guard = "uninit"
    /\ s_enableOmniTranscoding = FALSE
    /\ settingReads = 0
    /\ thread = [t \in Threads |-> FreshCall]
    /\ lastCall = NoCall

\* the guard of the static that lets every thread start the initialiser
StaticGuard_NoLock(t) ==
    /\ thread[t].pc = "call"
    /\ IF s_guard = "done"
       THEN /\ thread' = [thread EXCEPT ![t].pc = "body"]
            /\ UNCHANGED s_guard
       ELSE /\ s_guard' = "running"
            /\ thread' = [thread EXCEPT ![t].pc = "init"]
    /\ UNCHANGED <<envSetting, s_enableOmniTranscoding, settingReads, lastCall>>
    /\ UNCHANGED <<codecVars, eng, treeVars, vl, loop>>

\* the guard of the function-local static: the first thread runs the
\* initialiser, a thread that arrives meanwhile waits, later threads pass
StaticGuard(t) ==
    /\ thread[t].pc = "call"
    /\ s_guard # "running"
    /\ IF s_guard = "done"
       THEN /\ thread' = [thread EXCEPT ![t].pc = "body"]
            /\ UNCHANGED s_guard
       ELSE /\ s_guard' = "running"
            /\ thread' = [thread EXCEPT ![t].pc = "init"]
    /\ UNCHANGED <<envSetting, s_enableOmniTranscoding, settingReads, lastCall>>
    /\ UNCHANGED <<codecVars, eng, treeVars, vl, loop>>

\* s_enableOmniTranscoding = TfGetEnvSetting(USDEX_ENABLE_OMNI_TRANSCODING)
StaticInit(t) ==
    /\ thread[t].pc = "init"
    /\ s_enableOmniTranscoding' = envSetting
    /\ settingReads' = settingReads + 1
    /\ s_guard' = "done"
    /\ thread' = [thread EXCEPT ![t].pc = "body"]
    /\ UNCHANGED <<envSetting, lastCall>>
    /\ UNCHANGED <<codecVars, eng, treeVars, vl, loop>>

\* makeValidIdentifier is a function of its argument and of the static: every
\* call on an argument of IdInputs, with its result
makeValidIdentifierCalls ==
    {[in |-> in, enabled |-> enabled, r |-> makeValidIdentifierBody(in, enabled)] :
        in \in IdInputs, enabled \in BOOLEAN}

\* the rest of makeValidIdentifier on an argument of IdInputs
MakeValidIdentifier(t) ==
    /\ thread[t].pc = "body"
    /\ \E c \in makeValidIdentifierCalls :
        /\ c.enabled = s_enableOmniTranscoding
        /\ thread' = [thread EXCEPT ![t] =
                         [pc |-> "returned", flag |-> s_enableOmniTranscoding]]
        /\ lastCall' = [returned |-> TRUE, in |-> c.in, out |-> c.r.out,
                        enc |-> c.r.enc, sub |-> c.r.sub]
    /\ UNCHANGED <<envSetting, s_guard, s_enableOmniTranscoding, settingReads>>
    /\ UNCHANGED <<codecVars, eng, treeVars, vl, loop>>

\* the thread calls makeValidIdentifier again
CallAgain(t) ==
    /\ thread[t].pc = "returned"
    /\ thread' = [thread EXCEPT ![t] = FreshCall]
    /\ UNCHANGED <<envSetting, s_guard, s_enableOmniTranscoding, settingReads, lastCall>>
    /\ UNCHANGED <<codecVars, eng, treeVars, vl, loop>>

\* the value of the underlying setting changes
ChangeSetting ==
    /\ envSetting' = ~envSetting
    /\ UNCHANGED <<s_guard, s_enableOmniTranscoding, settingReads, thread, lastCall>>
    /\ UNCHANGED <<codecVars, eng, treeVars, vl, loop>>

NextValid ==
    \/ \E t \in Threads : StaticGuard(t)
    \/ \E t \in Threads : StaticInit(t)
    \/ \E t \in Threads : MakeValidIdentifier(t)
    \/ \E t \in Threads : CallAgain(t)
    \/ ChangeSetting

SpecValid == InitValid /\ [][NextValid]_vars

\* ------------------------------------- encodeBootstring / decodeBootstring
\* The two engine functions step by step: eng holds the position in the
\* function and its locals, named as in the source.

\* longest argument of encodeBootstring
MaxEngLen == 3
\* longest argument handed directly to decodeBootstring
MaxDecLen == 5

\* code points of the arguments of encodeBootstring: '_', 'a', NUL, U+0130
\* (continue-eligible in UTF8_XID only), U+2603 and U+FFFD
EngAlphabet == {95, 97, 0, 304, 9731, TfUtf8InvalidCodePoint}

EngInputs == UNION {[1..n -> EngAlphabet] : n \in 0..MaxEngLen}

\* characters of the arguments handed directly to decodeBootstring: the
\* digits '0', '1', '2' (terminal), 'a' (value 36, not terminal) and '_'
DecAlphabet == {48, 49, 50, 97, BOOTSTRING_DELIMITER}

DecInputs == UNION {[1..n -> DecAlphabet] : n \in 0..MaxDecLen}

\* the locals of both functions before the call; calls lists the calls on
\* the tree made by the last step, writes counts the assignments to each
\* element of codePoints, indices lists the indices lower has returned
EngLocals ==
    [tree |-> BinaryIndexedTree(0), extendedCodes |-> <<>>, encodedPoints |-> 0,
     codePosition |-> 0, k |-> 0, prevCodePoint |-> 0, oss |-> <<>>, emitted |-> <<>>,
     calls |-> <<>>, values |-> <<>>, codePoints |-> <<>>, writes |-> <<>>,
     indices |-> <<>>, it |-> 0, decodedPoints |-> 0, codePoint |-> 0,
     encoded |-> <<>>, decodeArg |-> <<>>, decoded |-> <<>>]

\* a call of encodeBootstring(str, fmt) about to start
EngEncodeCall(str, fmt) ==
    [pc |-> "encode", entry |-> "encodeBootstring", inputString |-> str, format |-> fmt]
        @@ EngLocals

\* a call of decodeBootstring(str) about to start
EngDecodeCall(str) ==
    [[pc |-> "decode", entry |-> "decodeBootstring", inputString |-> <<>>, format |-> "ASCII"]
        @@ EngLocals EXCEPT !.decodeArg = str]

\* the calls of encodeBootstring and decodeBootstring that are checked
EngCalls ==
    {EngEncodeCall(s, f) : s \in EngInputs, f \in Formats}
    \cup {EngDecodeCall(s) : s \in DecInputs}

InitEngine ==
    /\ eng \in EngCalls
    /\ CodecOff
    /\ ValidOff
    /\ TreeOff
    /\ VarLenOff
    /\ LoopOff

\* encodeBootstring, source lines 524-544: the first loop over the code
\* points, the delimiter, and the construction of the tree
EngEncodeScan ==
    /\ eng.pc = "encode"
    /\ LET cps == TfUtf8CodePointView(eng.inputString)
           basic == BasicCodePoints(cps, eng.format)
       IN IF HasInvalidCodePoint(cps)
          THEN eng' = [eng EXCEPT !.pc = "encodeFailed"]
          ELSE eng' = [eng EXCEPT
                         !.pc = "mark",
                         !.oss = IF Len(basic) > 0 THEN Append(basic, BOOTSTRING_DELIMITER)
                                 ELSE basic,
                         !.tree = BinaryIndexedTree(Len(cps)),
                         !.codePosition = 0]
    /\ UNCHANGED <<codecVars, validVars, treeVars, vl, loop>>

\* one iteration of the second loop, source lines 549-561
EngEncodeMark ==
    /\ eng.pc = "mark"
    /\ eng.codePosition < Len(eng.inputString)
    /\ LET value == AsUInt32(eng.inputString[eng.codePosition + 1])
       IN IF IsContinue(value, eng.format)
          THEN eng' = [eng EXCEPT
                         !.tree = increase(eng.tree, eng.codePosition),
                         !.calls = <<[op |-> "increase", arg |-> eng.codePosition]>>,
                         !.encodedPoints = @ + 1,
                         !.codePosition = @ + 1]
          ELSE eng' = [eng EXCEPT
                         !.extendedCodes = Append(@, <<value, eng.codePosition>>),
                         !.calls = <<>>,
                         !.codePosition = @ + 1]
    /\ UNCHANGED <<codecVars, validVars, treeVars, vl, loop>>

\* std::sort and the start of the third loop, source lines 563-566
EngEncodeSort ==
    /\ eng.pc = "mark"
    /\ eng.codePosition = Len(eng.inputString)
    /\ eng' = [eng EXCEPT
                 !.pc = "delta",
                 !.extendedCodes = StdSort(@),
                 !.calls = <<>>,
                 !.prevCodePoint = 0,
                 !.k = 1]
    /\ UNCHANGED <<codecVars, validVars, treeVars, vl, loop>>

\* one iteration of the third loop, source lines 566-583; the subtraction is
\* made in code_t and the product in uint64_t
EngEncodeDelta ==
    /\ eng.pc = "delta"
    /\ eng.k <= Len(eng.extendedCodes)
    /\ LET codePoint == eng.extendedCodes[eng.k][1]
           codePosition == eng.extendedCodes[eng.k][2]
           delta0 == sum(eng.tree, codePosition)
           diff == (codePoint + CODE_T_MOD - eng.prevCodePoint) % CODE_T_MOD
       IN IF diff > (UINT64_MAX - delta0) \div (eng.encodedPoints + 1)
          THEN eng' = [eng EXCEPT
                         !.pc = "encodeFailed",
                         !.calls = <<[op |-> "sum", arg |-> codePosition]>>]
          ELSE LET delta == delta0 + diff * (eng.encodedPoints + 1)
               IN eng' = [eng EXCEPT
                            !.oss = @ \o encodeVariableLength(delta),
                            !.emitted = <<[delta |-> delta, codePoint |-> codePoint,
                                           prevCodePoint |-> eng.prevCodePoint,
                                           codePosition |-> codePosition,
                                           encodedPoints |-> eng.encodedPoints]>>,
                            !.prevCodePoint = codePoint,
                            !.tree = increase(eng.tree, codePosition),
                            !.calls = <<[op |-> "sum", arg |-> codePosition],
                                        [op |-> "increase", arg |-> codePosition]>>,
                            !.encodedPoints = @ + 1,
                            !.k = @ + 1]
    /\ UNCHANGED <<codecVars, validVars, treeVars, vl, loop>>

\* return oss.str(), source line 585
EngEncodeReturn ==
    /\ eng.pc = "delta"
    /\ eng.k > Len(eng.extendedCodes)
    /\ eng' = [eng EXCEPT !.pc = "encoded", !.encoded = eng.oss, !.calls = <<>>]
    /\ UNCHANGED <<codecVars, validVars, treeVars, vl, loop>>

\* a caller hands the output of encodeBootstring to decodeBootstring
EngDecodeEncoded ==
    /\ eng.pc = "encoded"
    /\ eng' = [eng EXCEPT !.pc = "decode", !.decodeArg = eng.encoded]
    /\ UNCHANGED <<codecVars, validVars, treeVars, vl, loop>>

\* decodeBootstring, source lines 590-625: the delimiter scan, the skeleton
\* entries and the locals of the delta loop
EngDecodeParse ==
    /\ eng.pc = "decode"
    /\ LET cps == TfUtf8CodePointView(eng.decodeArg)
           delimiterPosition == DelimiterPositionLoop(cps, 0, 0)
           basic == IF delimiterPosition > 0
                    THEN [i \in 1..delimiterPosition |-> <<cps[i], i - 1>>]
                    ELSE <<>>
       IN IF HasInvalidCodePoint(cps)
          THEN eng' = [eng EXCEPT !.pc = "decodeFailed", !.calls = <<>>]
          ELSE eng' = [eng EXCEPT
                         !.pc = "deltas",
                         !.calls = <<>>,
                         !.values = basic,
                         !.it = IF delimiterPosition > 0 THEN delimiterPosition + 2 ELSE 1,
                         !.decodedPoints = Len(basic),
                         !.codePoint = 0]
    /\ UNCHANGED <<codecVars, validVars, treeVars, vl, loop>>

\* DecodeDeltaStep that takes the position modulo decodedPoints + 2
DecodeDeltaStep_WideModulus(e) ==
    LET ret == decodeVariableLength(TfUtf8CodePointView(e.decodeArg), e.it)
    IN IF ~ret.ok
       THEN [e EXCEPT !.pc = "decodeFailed"]
       ELSE LET value == ret.number
                cp == (e.codePoint + ((value \div (e.decodedPoints + 1)) % CODE_T_MOD))
                      % CODE_T_MOD
                position == value % (e.decodedPoints + 2)
            IN [e EXCEPT !.it = ret.it,
                         !.codePoint = cp,
                         !.decodedPoints = @ + 1,
                         !.values = Append(@, <<cp, position>>)]

\* one iteration of the delta loop, source lines 628-641; e holds the locals
\* before the iteration and the result holds them after it
DecodeDeltaStep(e) ==
    LET ret == decodeVariableLength(TfUtf8CodePointView(e.decodeArg), e.it)
    IN IF ~ret.ok
       THEN [e EXCEPT !.pc = "decodeFailed"]
       ELSE LET value == ret.number
                cp == (e.codePoint + ((value \div (e.decodedPoints + 1)) % CODE_T_MOD))
                      % CODE_T_MOD
                position == value % (e.decodedPoints + 1)
            IN [e EXCEPT !.it = ret.it,
                         !.codePoint = cp,
                         !.decodedPoints = @ + 1,
                         !.values = Append(@, <<cp, position>>)]

\* the test of the delta loop and one iteration, source lines 626-642
EngDecodeDelta ==
    /\ eng.pc = "deltas"
    /\ eng.it <= Len(eng.decodeArg)
    /\ eng' = DecodeDeltaStep(eng)
    /\ UNCHANGED <<codecVars, validVars, treeVars, vl, loop>>

\* the exit of the delta loop, the construction and filling of the tree and
\* the output array, source lines 626 and 645-647
EngDecodeTree ==
    /\ eng.pc = "deltas"
    /\ eng.it > Len(eng.decodeArg)
    /\ eng' = [eng EXCEPT
                 !.pc = "place",
                 !.tree = increaseAll(BinaryIndexedTree(Len(eng.values))),
                 !.calls = <<[op |-> "increaseAll", arg |-> 0]>>,
                 !.codePoints = [i \in 0..(Len(eng.values) - 1) |-> 0],
                 !.writes = [i \in 0..(Len(eng.values) - 1) |-> 0],
                 !.indices = <<>>,
                 !.k = Len(eng.values)]
    /\ UNCHANGED <<codecVars, validVars, treeVars, vl, loop>>

\* one iteration of the reverse placement loop, source lines 648-660; a
\* returned index that is not an index of codePoints is a write outside the
\* vector, after which the call has no defined behaviour
EngDecodePlace ==
    /\ eng.pc = "place"
    /\ eng.k >= 1
    /\ LET value == eng.values[eng.k][1]
           position == eng.values[eng.k][2]
           present == Cardinality({i \in DOMAIN eng.writes : eng.writes[i] = 0})
           ret == lower(eng.tree, position + 1)
           lowerCall == [op |-> "lower", arg |-> position + 1, present |-> present]
       IN IF ~ret.ok
          THEN eng' = [eng EXCEPT !.pc = "decodeFailed", !.calls = <<lowerCall>>]
          ELSE IF ret.index \notin DOMAIN eng.codePoints
          THEN eng' = [eng EXCEPT
                         !.pc = "outOfBounds",
                         !.calls = <<lowerCall, [op |-> "write", arg |-> ret.index]>>]
          ELSE eng' = [eng EXCEPT
                         !.codePoints[ret.index] = value,
                         !.writes[ret.index] = @ + 1,
                         !.indices = Append(@, ret.index),
                         !.tree = decrease(eng.tree, ret.index),
                         !.calls = <<lowerCall, [op |-> "write", arg |-> ret.index],
                                     [op |-> "decrease", arg |-> ret.index]>>,
                         !.k = @ - 1]
    /\ UNCHANGED <<codecVars, validVars, treeVars, vl, loop>>

\* the last loop and return oss.str(), source lines 661-666
EngDecodeReturn ==
    /\ eng.pc = "place"
    /\ eng.k = 0
    /\ eng' = [eng EXCEPT
                 !.pc = "decoded",
                 !.calls = <<>>,
                 !.decoded = [i \in 1..Len(eng.values) |->
                                 TfUtf8CodePoint(eng.codePoints[i - 1])]]
    /\ UNCHANGED <<codecVars, validVars, treeVars, vl, loop>>

NextEngine ==
    \/ EngEncodeScan
    \/ EngEncodeMark
    \/ EngEncodeSort
    \/ EngEncodeDelta
    \/ EngEncodeReturn
    \/ EngDecodeEncoded
    \/ EngDecodeParse
    \/ EngDecodeDelta
    \/ EngDecodeTree
    \/ EngDecodePlace
    \/ EngDecodeReturn

SpecEngine == InitEngine /\ [][NextEngine]_vars

\* -------------------------------------------- BinaryIndexedTree as an object
\* largest capacity of the tree
MaxCapacity == 4
\* largest count a caller puts in one slot
MaxCount == 2

\* BinaryIndexedTree tree(n), source lines 339-346
InitTree ==
    /\ \E n \in 0..MaxCapacity :
        /\ bit = BinaryIndexedTree(n)
        /\ counts = [i \in 0..(n - 1) |-> 0]
    /\ treeCall = [op |-> "BinaryIndexedTree", arg |-> 0]
    /\ CodecOff
    /\ ValidOff
    /\ EngOff
    /\ VarLenOff
    /\ LoopOff

\* tree.increase(i), source lines 349-355
TreeIncrease ==
    /\ \E i \in DOMAIN counts :
        /\ counts[i] < MaxCount
        /\ bit' = increase(bit, i)
        /\ counts' = [counts EXCEPT ![i] = @ + 1]
        /\ treeCall' = [op |-> "increase", arg |-> i]
    /\ UNCHANGED <<codecVars, validVars, eng, vl, loop>>

\* tree.decrease(i) on a slot whose count is positive, source lines 358-364
TreeDecrease ==
    /\ \E i \in DOMAIN counts :
        /\ counts[i] > 0
        /\ bit' = decrease(bit, i)
        /\ counts' = [counts EXCEPT ![i] = @ - 1]
        /\ treeCall' = [op |-> "decrease", arg |-> i]
    /\ UNCHANGED <<codecVars, validVars, eng, vl, loop>>

\* tree.increaseAll() on the tree as constructed, source lines 367-380; its
\* one caller makes it right after the construction (source lines 645-646)
TreeIncreaseAll ==
    /\ treeCall.op = "BinaryIndexedTree"
    /\ bit' = increaseAll(bit)
    /\ counts' = [i \in DOMAIN counts |-> counts[i] + 1]
    /\ treeCall' = [op |-> "increaseAll", arg |-> 0]
    /\ UNCHANGED <<codecVars, validVars, eng, vl, loop>>

\* tree.lower(k), source lines 394-413, for a rank k up to two above the
\* capacity
TreeLower ==
    /\ \E k \in 1..(TreeSize(bit) + 1) :
        treeCall' = [op |-> "lower", arg |-> k, ret |-> lower(bit, k)]
    /\ UNCHANGED <<bit, counts>>
    /\ UNCHANGED <<codecVars, validVars, eng, vl, loop>>

NextTree == TreeIncrease \/ TreeDecrease \/ TreeIncreaseAll \/ TreeLower

SpecTree == InitTree /\ [][NextTree]_vars

\* ------------------------------- encodeVariableLength / decodeVariableLength
\* The two functions step by step: vl holds the position in the function and
\* its locals, named as in the source.

\* the numbers 0..MaxSmallNumber are all encoded
MaxSmallNumber == 70
\* longest character stream handed directly to decodeVariableLength
MaxRunLen == 6

RECURSIVE Pow31(_)
Pow31(k) == IF k = 0 THEN 1 ELSE (BASE62 - BOOTSTRING_THRESHOLD) * Pow31(k - 1)

\* the numbers handed to encodeVariableLength: the small ones, those around
\* the powers of 31 and around twice these, and the largest of the accumulator
VlNumbers ==
    (0..MaxSmallNumber)
    \cup {Pow31(k) + j : k \in 2..5, j \in {0 - 1, 0, 1}}
    \cup {2 * Pow31(k) + j : k \in 2..4, j \in {0 - 1, 0, 1}}
    \cup {UINT64_MAX - j : j \in 0..2}

\* what follows the digit run in the stream: nothing, the run of 0, the run
\* of 62, a delimiter
VlFollowers == {<<>>, <<48>>, <<86, 49>>, <<BOOTSTRING_DELIMITER>>}

\* characters of the streams handed directly to decodeVariableLength: '0'
\* (digit 0), 'U' (30), 'V' (31), 'z' (61) and '_' (no digit)
VlAlphabet == {48, 85, 86, 122, BOOTSTRING_DELIMITER}

VlStreams == UNION {[1..n -> VlAlphabet] : n \in 0..MaxRunLen}

\* the locals of both functions before the call; digits lists the digit
\* values decodeVariableLength has added, wrapped tells whether an addition or
\* a multiplication has exceeded the accumulator
VlLocals ==
    [n |-> 0, follow |-> <<>>, oss |-> <<>>, stream |-> <<>>, it |-> 1, number |-> 0,
     weight |-> 1, digits |-> <<>>, wrapped |-> FALSE, reason |-> "none"]

\* a call of encodeVariableLength(oss, n); follow is what the caller writes
\* to the stream after it
VlEncodeCall(n, follow) ==
    [[pc |-> "encode", entry |-> "encodeVariableLength"] @@ VlLocals
        EXCEPT !.n = n, !.number = n, !.follow = follow]

\* a call of decodeVariableLength(it) with it at the start of stream
VlDecodeCall(stream) ==
    [[pc |-> "decode", entry |-> "decodeVariableLength"] @@ VlLocals
        EXCEPT !.stream = stream]

\* the calls of encodeVariableLength and decodeVariableLength that are checked
VlCalls ==
    {VlEncodeCall(n, follow) : n \in VlNumbers, follow \in VlFollowers}
    \cup {VlDecodeCall(stream) : stream \in VlStreams}

InitVarLen ==
    /\ vl \in VlCalls
    /\ CodecOff
    /\ ValidOff
    /\ EngOff
    /\ TreeOff
    /\ LoopOff

\* VlEncodeStep that divides the rest of the number by the base
VlEncodeStep_DivideByBase ==
    /\ vl.pc = "encode"
    /\ IF vl.number >= BOOTSTRING_THRESHOLD
       THEN LET digit == BOOTSTRING_THRESHOLD
                         + ((vl.number - BOOTSTRING_THRESHOLD) % (BASE62 - BOOTSTRING_THRESHOLD))
            IN vl' = [vl EXCEPT
                        !.oss = Append(@, encodeBase62(digit)),
                        !.number = (vl.number - BOOTSTRING_THRESHOLD) \div BASE62]
       ELSE vl' = [vl EXCEPT
                     !.pc = "encoded",
                     !.oss = Append(@, encodeBase62(vl.number))]
    /\ UNCHANGED <<codecVars, validVars, eng, treeVars, loop>>

\* VlEncodeStep that leaves the loop when the number is at most the threshold
VlEncodeStep_ThresholdExclusive ==
    /\ vl.pc = "encode"
    /\ IF vl.number > BOOTSTRING_THRESHOLD
       THEN LET digit == BOOTSTRING_THRESHOLD
                         + ((vl.number - BOOTSTRING_THRESHOLD) % (BASE62 - BOOTSTRING_THRESHOLD))
            IN vl' = [vl EXCEPT
                        !.oss = Append(@, encodeBase62(digit)),
                        !.number = (vl.number - BOOTSTRING_THRESHOLD)
                                   \div (BASE62 - BOOTSTRING_THRESHOLD)]
       ELSE vl' = [vl EXCEPT
                     !.pc = "encoded",
                     !.oss = Append(@, encodeBase62(vl.number))]
    /\ UNCHANGED <<codecVars, validVars, eng, treeVars, loop>>

\* one iteration of the loop of encodeVariableLength, or the statement after
\* it, source lines 461-469
VlEncodeStep ==
    /\ vl.pc = "encode"
    /\ IF vl.number >= BOOTSTRING_THRESHOLD
       THEN LET digit == BOOTSTRING_THRESHOLD
                         + ((vl.number - BOOTSTRING_THRESHOLD) % (BASE62 - BOOTSTRING_THRESHOLD))
            IN vl' = [vl EXCEPT
                        !.oss = Append(@, encodeBase62(digit)),
                        !.number = (vl.number - BOOTSTRING_THRESHOLD)
                                   \div (BASE62 - BOOTSTRING_THRESHOLD)]
       ELSE vl' = [vl EXCEPT
                     !.pc = "encoded",
                     !.oss = Append(@, encodeBase62(vl.number))]
    /\ UNCHANGED <<codecVars, validVars, eng, treeVars, loop>>

\* the caller writes what follows and hands the stream to decodeVariableLength
VlDecodeEncoded ==
    /\ vl.pc = "encoded"
    /\ vl' = [vl EXCEPT !.pc = "decode", !.stream = vl.oss \o vl.follow,
                        !.it = 1, !.number = 0, !.weight = 1]
    /\ UNCHANGED <<codecVars, validVars, eng, treeVars, loop>>

\* VlDecodeStep that adds a terminal digit without the overflow test
VlDecodeStep_TerminalUnchecked ==
    /\ vl.pc = "decode"
    /\ IF vl.it > Len(vl.stream)
       THEN vl' = [vl EXCEPT !.pc = "failed", !.reason = "end"]
       ELSE LET codePoint == AsUInt32(vl.stream[vl.it])
                digit == decodeBase62(StaticCastChar(codePoint))
                sum1 == vl.number + digit * vl.weight
                product == vl.weight * (BASE62 - BOOTSTRING_THRESHOLD)
            IN IF codePoint > MAX_CODE_POINT
               THEN vl' = [vl EXCEPT !.pc = "failed", !.reason = "value"]
               ELSE IF digit > BASE62
               THEN vl' = [vl EXCEPT !.pc = "failed", !.reason = "character", !.it = @ + 1]
               ELSE IF digit < BOOTSTRING_THRESHOLD
               THEN vl' = [vl EXCEPT
                             !.pc = "returned",
                             !.it = @ + 1,
                             !.number = sum1 % (UINT64_MAX + 1),
                             !.digits = Append(@, digit),
                             !.wrapped = @ \/ sum1 > UINT64_MAX]
               ELSE IF digit > (UINT64_MAX - vl.number) \div vl.weight
               THEN vl' = [vl EXCEPT !.pc = "failed", !.reason = "overflow", !.it = @ + 1]
               ELSE IF vl.weight > UINT64_MAX \div (BASE62 - BOOTSTRING_THRESHOLD)
               THEN vl' = [vl EXCEPT
                             !.pc = "failed",
                             !.reason = "overflow",
                             !.it = @ + 1,
                             !.number = sum1 % (UINT64_MAX + 1),
                             !.digits = Append(@, digit),
                             !.wrapped = @ \/ sum1 > UINT64_MAX]
               ELSE vl' = [vl EXCEPT
                             !.it = @ + 1,
                             !.number = sum1 % (UINT64_MAX + 1),
                             !.weight = product % (UINT64_MAX + 1),
                             !.digits = Append(@, digit),
                             !.wrapped = @ \/ sum1 > UINT64_MAX \/ product > UINT64_MAX]
    /\ UNCHANGED <<codecVars, validVars, eng, treeVars, loop>>

\* one iteration of the while (true) loop of decodeVariableLength, source
\* lines 481-517; number and weight are uint64_t
VlDecodeStep ==
    /\ vl.pc = "decode"
    /\ IF vl.it > Len(vl.stream)
       THEN vl' = [vl EXCEPT !.pc = "failed", !.reason = "end"]
       ELSE LET codePoint == AsUInt32(vl.stream[vl.it])
                digit == decodeBase62(StaticCastChar(codePoint))
                sum1 == vl.number + digit * vl.weight
                product == vl.weight * (BASE62 - BOOTSTRING_THRESHOLD)
            IN IF codePoint > MAX_CODE_POINT
               THEN vl' = [vl EXCEPT !.pc = "failed", !.reason = "value"]
               ELSE IF digit > BASE62
               THEN vl' = [vl EXCEPT !.pc = "failed", !.reason = "character", !.it = @ + 1]
               ELSE IF digit > (UINT64_MAX - vl.number) \div vl.weight
               THEN vl' = [vl EXCEPT !.pc = "failed", !.reason = "overflow", !.it = @ + 1]
               ELSE IF digit < BOOTSTRING_THRESHOLD
               THEN vl' = [vl EXCEPT
                             !.pc = "returned",
                             !.it = @ + 1,
                             !.number = sum1 % (UINT64_MAX + 1),
                             !.digits = Append(@, digit),
                             !.wrapped = @ \/ sum1 > UINT64_MAX]
               ELSE IF vl.weight > UINT64_MAX \div (BASE62 - BOOTSTRING_THRESHOLD)
               THEN vl' = [vl EXCEPT
                             !.pc = "failed",
                             !.reason = "overflow",
                             !.it = @ + 1,
                             !.number = sum1 % (UINT64_MAX + 1),
                             !.digits = Append(@, digit),
                             !.wrapped = @ \/ sum1 > UINT64_MAX]
               ELSE vl' = [vl EXCEPT
                             !.it = @ + 1,
                             !.number = sum1 % (UINT64_MAX + 1),
                             !.weight = product % (UINT64_MAX + 1),
                             !.digits = Append(@, digit),
                             !.wrapped = @ \/ sum1 > UINT64_MAX \/ product > UINT64_MAX]
    /\ UNCHANGED <<codecVars, validVars, eng, treeVars, loop>>

NextVarLen == VlEncodeStep \/ VlDecodeEncoded \/ VlDecodeStep

SpecVarLen == InitVarLen /\ [][NextVarLen]_vars

\* ----------------------------------------------- encodeBase62 / decodeBase62
\* the values of base62_t handed to encodeBase62
Base62Digits == 0..(BASE62 - 1)

\* the values of char handed to decodeBase62
Chars == 0..255

\* a call of encodeBase62(digit)
B62EncodeCall(digit) ==
    [pc |-> "encodeBase62", entry |-> "encodeBase62", digit |-> digit, character |-> 0,
     ret |-> 0, accepted |-> FALSE]

\* a call of decodeBase62(character)
B62DecodeCall(character) ==
    [pc |-> "decodeBase62", entry |-> "decodeBase62", digit |-> 0, character |-> character,
     ret |-> 0, accepted |-> FALSE]

InitBase62 ==
    /\ vl \in {B62EncodeCall(digit) : digit \in Base62Digits}
              \cup {B62DecodeCall(character) : character \in Chars}
    /\ CodecOff
    /\ ValidOff
    /\ EngOff
    /\ TreeOff
    /\ LoopOff

\* encodeBase62, source lines 294-308
B62Encode ==
    /\ vl.pc = "encodeBase62"
    /\ vl' = [vl EXCEPT !.pc = "decodeBase62", !.character = encodeBase62(vl.digit)]
    /\ UNCHANGED <<codecVars, validVars, eng, treeVars, loop>>

\* decodeBase62, source lines 312-330
B62Decode ==
    /\ vl.pc = "decodeBase62"
    /\ vl' = [vl EXCEPT !.pc = "decoded", !.ret = decodeBase62(vl.character)]
    /\ UNCHANGED <<codecVars, validVars, eng, treeVars, loop>>

\* decodeVariableLength on the stream of the character and the digit '0'
B62DecodeVariableLength ==
    /\ vl.pc = "decoded"
    /\ vl' = [vl EXCEPT !.pc = "read",
                        !.accepted = decodeVariableLength(<<vl.character, 48>>, 1).ok]
    /\ UNCHANGED <<codecVars, validVars, eng, treeVars, loop>>

NextBase62 == B62Encode \/ B62Decode \/ B62DecodeVariableLength

SpecBase62 == InitBase62 /\ [][NextBase62]_vars

\* ------------------------------------------ the loops of BinaryIndexedTree
\* One member function of the tree, one loop iteration per step: loop holds
\* the function being run, the tree and the locals of the function.

\* the trees the member functions are called on: as constructed, and with
\* every slot present
LoopTrees ==
    {BinaryIndexedTree(n) : n \in 0..MaxCapacity}
    \cup {increaseAll(BinaryIndexedTree(n)) : n \in 0..MaxCapacity}

\* the locals of the member functions before the call
LoopLocals == [idx |-> 0, bitmask |-> 0, sum |-> 0, i |-> 0, found |-> FALSE]

\* the call t.f(arg) at the head of the loop of f
LoopCall(f, t, arg) ==
    [[pc |-> f, tree |-> t] @@ LoopLocals
        EXCEPT !.idx = IF f \in {"increase", "decrease", "sum"} THEN arg + 1 ELSE 0,
               !.bitmask = IF f = "lower" THEN Pow2(t.most_significant_bit) ELSE 0,
               !.sum = IF f = "lower" THEN arg ELSE 0]

\* the calls of the member functions that are checked: an index below the
\* capacity for increase, decrease and sum, any rank for lower
LoopCalls ==
    {LoopCall(f, t, i) : f \in {"increase", "decrease", "sum"},
                         t \in LoopTrees, i \in 0..(MaxCapacity - 1)}
    \cup {LoopCall("increaseAll", t, 0) : t \in LoopTrees}
    \cup {LoopCall("lower", t, k) : t \in LoopTrees, k \in 0..(MaxCapacity + 1)}

\* one test and iteration of the loop of increase, source lines 351-354
IncreaseStep(l) ==
    IF l.idx < TreeSize(l.tree)
    THEN [l EXCEPT !.tree.tree[l.idx] = (@ + 1) % (UINT64_MAX + 1),
                   !.idx = l.idx + LowBit(l.idx)]
    ELSE [l EXCEPT !.pc = "exit"]

\* one test and iteration of the loop of decrease, source lines 360-363
DecreaseStep(l) ==
    IF l.idx < TreeSize(l.tree)
    THEN [l EXCEPT !.tree.tree[l.idx] = (@ + UINT64_MAX) % (UINT64_MAX + 1),
                   !.idx = l.idx + LowBit(l.idx)]
    ELSE [l EXCEPT !.pc = "exit"]

\* one test and iteration of the loop of increaseAll, source lines 369-379
IncreaseAllStep(l) ==
    IF l.i < TreeSize(l.tree) - 1
    THEN LET t1 == [l.tree EXCEPT !.tree[l.i + 1] = (@ + 1) % (UINT64_MAX + 1)]
             idx == (l.i + 1) + LowBit(l.i + 1)
             t2 == IF idx < TreeSize(l.tree)
                   THEN [t1 EXCEPT !.tree[idx] = (@ + t1.tree[l.i + 1]) % (UINT64_MAX + 1)]
                   ELSE t1
         IN [l EXCEPT !.tree = t2, !.i = l.i + 1]
    ELSE [l EXCEPT !.pc = "exit"]

\* one test and iteration of the loop of sum, source lines 386-389
SumStep(l) ==
    IF l.idx > 0
    THEN [l EXCEPT !.sum = (@ + l.tree.tree[l.idx]) % (UINT64_MAX + 1),
                   !.idx = l.idx - LowBit(l.idx)]
    ELSE [l EXCEPT !.pc = "exit"]

\* the loop of lower with the bitmask left as it is
LowerStep_MaskKept(l) ==
    IF l.bitmask > 0
    THEN LET current == BitOr(l.idx, l.bitmask)
         IN IF current < TreeSize(l.tree) /\ l.tree.tree[current] < l.sum
            THEN [l EXCEPT !.idx = current, !.sum = l.sum - l.tree.tree[current]]
            ELSE l
    ELSE [l EXCEPT !.pc = "exit", !.found = ~(l.sum > 1)]

\* one test and iteration of the loop of lower, or the statements after it,
\* source lines 398-412
LowerStep(l) ==
    IF l.bitmask > 0
    THEN LET current == BitOr(l.idx, l.bitmask)
         IN IF current < TreeSize(l.tree) /\ l.tree.tree[current] < l.sum
            THEN [l EXCEPT !.idx = current, !.sum = l.sum - l.tree.tree[current],
                           !.bitmask = l.bitmask \div 2]
            ELSE [l EXCEPT !.bitmask = l.bitmask \div 2]
    ELSE [l EXCEPT !.pc = "exit", !.found = ~(l.sum > 1)]

LoopIncrease ==
    /\ loop.pc = "increase"
    /\ loop' = IncreaseStep(loop)
    /\ UNCHANGED <<codecVars, validVars, eng, treeVars, vl>>

LoopDecrease ==
    /\ loop.pc = "decrease"
    /\ loop' = DecreaseStep(loop)
    /\ UNCHANGED <<codecVars, validVars, eng, treeVars, vl>>

LoopIncreaseAll ==
    /\ loop.pc = "increaseAll"
    /\ loop' = IncreaseAllStep(loop)
    /\ UNCHANGED <<codecVars, validVars, eng, treeVars, vl>>

LoopSum ==
    /\ loop.pc = "sum"
    /\ loop' = SumStep(loop)
    /\ UNCHANGED <<codecVars, validVars, eng, treeVars, vl>>

LoopLower ==
    /\ loop.pc = "lower"
    /\ loop' = LowerStep(loop)
    /\ UNCHANGED <<codecVars, validVars, eng, treeVars, vl>>

NextLoops == LoopIncrease \/ LoopDecrease \/ LoopIncreaseAll \/ LoopSum \/ LoopLower

\* ------------------------------------------------------------ termination
\* One thread: before the call every machine is off; the thread calls one
\* function of the transcoding and runs it step by step. Nothing obliges
\* the thread to make the call; once it runs a function it always takes the
\* next step, which is the weak fairness of the steps.

InitTermination ==
    /\ CodecOff
    /\ ValidOff
    /\ EngOff
    /\ TreeOff
    /\ VarLenOff
    /\ LoopOff

\* the calls of the engine whose termination is checked: every string to
\* encode, and to decode the strings of '1' (terminal digit), 'a' (digit
\* that continues the run) and '_' (delimiter)
TermEngCalls == {c \in EngCalls : \A i \in 1..Len(c.decodeArg) : c.decodeArg[i] \in {49, 97, 95}}

\* the calls of the variable-length functions whose termination is checked:
\* every number, and the streams of '0' (terminal digit), 'z' (largest
\* digit) and '_' (no digit)
TermVlCalls == {c \in VlCalls : \A i \in 1..Len(c.stream) : c.stream[i] \in {48, 122, 95}}

TermCall ==
    /\ EngOff
    /\ VarLenOff
    /\ LoopOff
    /\ \/ eng' \in TermEngCalls /\ UNCHANGED <<vl, loop>>
       \/ vl' \in TermVlCalls /\ UNCHANGED <<eng, loop>>
       \/ loop' \in {l \in LoopCalls : l.pc \in {"increase", "decrease", "sum"}
                                          => l.idx < TreeSize(l.tree)}
          /\ UNCHANGED <<eng, vl>>
    /\ UNCHANGED <<codecVars, validVars, treeVars>>

\* a step of the function that is running
TermStep == NextEngine \/ NextVarLen \/ NextLoops

NextTermination == TermCall \/ TermStep

SpecTermination ==
    InitTermination /\ [][NextTermination]_vars /\ WF_vars(TermStep)

\* a function has been called
Called == ~(EngOff /\ VarLenOff /\ LoopOff)

\* the function that was called has returned
Returned ==
    \/ eng.pc \in {"encodeFailed", "decoded", "decodeFailed", "outOfBounds"}
    \/ vl.pc \in {"returned", "failed"}
    \/ loop.pc = "exit"

\* ------------------------------------------------- vocabulary of the claims
\* s holds only well-formed Unicode scalar values
IsScalarString(s) ==
    \A i \in 1..Len(s) :
        s[i] >= 0 /\ s[i] <= MAX_CODE_POINT /\ ~(s[i] >= 55296 /\ s[i] <= 57343)

\* s is a legal identifier under profile f
IsLegalIdentifier(s, f) ==
    /\ Len(s) > 0
    /\ \A i \in 1..Len(s) : s[i] # BadByte
    /\ IsStart(s[1], f)
    /\ \A i \in 1..Len(s) : IsContinue(s[i], f)

\* the first four bytes of s are exactly the prefix
HasPrefix(s) ==
    Len(s) >= 4 /\ \A i \in 1..4 : s[i] = BOOTSTRING_PREFIX[i]

\* s without its first four items
AfterPrefix(s) == [i \in 1..(Len(s) - 4) |-> s[i + 4]]

\* index of the last delimiter of s, 0 when s has none
LastDelimiter(s) ==
    IF \E i \in 1..Len(s) : s[i] = BOOTSTRING_DELIMITER
    THEN CHOOSE i \in 1..Len(s) :
             s[i] = BOOTSTRING_DELIMITER /\ \A j \in (i + 1)..Len(s) : s[j] # BOOTSTRING_DELIMITER
    ELSE 0

\* the delta portion of a prefixed string: everything after its last
\* delimiter, or everything after the prefix when there is no delimiter
DeltaPortion(s) ==
    LET r == AfterPrefix(s)
        d == LastDelimiter(r)
    IN [i \in 1..(Len(r) - d) |-> r[i + d]]

\* c is one of the 62 characters 0-9, A-Z, a-z
IsBase62Char(c) ==
    (c >= 48 /\ c <= 57) \/ (c >= 65 /\ c <= 90) \/ (c >= 97 /\ c <= 122)

\* the digit value of a base-62 character
DigitValue(c) ==
    IF c <= 57 THEN c - 48 ELSE IF c <= 90 THEN c - 55 ELSE c - 61

\* the continue-eligible code points of s in their original relative order
Skeleton(s, f) == SelectSeq(s, LAMBDA c : c # BadByte /\ IsContinue(c, f))

\* the input holds neither a malformed byte nor U+FFFD
NoInvalidItem(s) == \A i \in 1..Len(s) : AsUInt32(s[i]) # TfUtf8InvalidCodePoint

\* the copy of s with every non-continue-eligible code point replaced by '_'
Substituted(s, f) ==
    [i \in 1..Len(s) |-> IF s[i] # BadByte /\ IsContinue(s[i], f) THEN s[i] ELSE 95]

\* inputs the injectivity claim compares the encoded input with
OtherInputs == {p \o b : p \in Prefixes, b \in UNION {[1..n -> Alphabet] : n \in 0..1}}

\* ------------------------------------------------------------------ claims

\* C1: round trip: for every string s of valid Unicode scalar values and
\* both formats f, decodeIdentifier(encodeIdentifier(s, f)) = s.
C1_RoundTrip ==
    (pc = "roundtrip" /\ IsScalarString(inputString)) => decoded = inputString

\* C2: no-op path: a non-empty string whose first code point is
\* start-eligible and whose code points are all continue-eligible under f is
\* returned by encodeIdentifier unchanged.
C2_NoOpPath ==
    (pc = "encoded" /\ IsLegalIdentifier(inputString, format)) => encoded = inputString

C2_Witness ==
    /\ pc = "encoded"
    /\ format = "UTF8_XID"
    /\ Len(inputString) = 3
    /\ inputString[1] = 304
    /\ IsLegalIdentifier(inputString, format)
    /\ encoded = inputString

C4_Injective ==
    (pc = "encoded" /\ IsScalarString(inputString)) =>
        \A s2 \in OtherInputs :
            (IsScalarString(s2) /\ s2 # inputString) => encodeIdentifier(s2, format) # encoded

\* C5: decode safety: a string whose first four bytes are not exactly the
\* prefix is returned by decodeIdentifier unchanged, without running the
\* Bootstring decoder.
C5_DecodeSafety ==
    (pc \in {"decoded", "roundtrip", "truncated"} /\ ~HasPrefix(decodeArg)) =>
        (decoded = decodeArg /\ ~decoderCalled)

C5_Witness ==
    /\ pc = "decoded"
    /\ Len(decodeArg) = 5
    /\ SubSeq(decodeArg, 1, 3) = <<116, 110, 95>>
    /\ decodeArg[4] = 48
    /\ decoded = decodeArg
    /\ ~decoderCalled

\* C6: bad digit: a prefixed string whose delta portion holds a code point
\* that is not one of the 62 digit characters is returned by decodeIdentifier
\* unchanged.
C6_BadDigit ==
    (/\ pc = "decoded"
     /\ HasPrefix(decodeArg)
     /\ \E i \in 1..Len(DeltaPortion(decodeArg)) : ~IsBase62Char(DeltaPortion(decodeArg)[i]))
    => decoded = decodeArg

\* C7 as stated: removing the last character of a prefixed result of
\* encodeIdentifier with a non-empty delta portion gives a string that
\* decodeIdentifier returns unchanged.
C7_TruncationAny ==
    (/\ pc = "truncated"
     /\ HasPrefix(encoded)
     /\ Len(DeltaPortion(encoded)) > 0)
    => decoded = decodeArg

\* C7 amended: removing the last character of a prefixed result of
\* encodeIdentifier whose last digit run has more than one digit (the
\* character before the last one is in the delta portion and is a digit of
\* value 31 or more) gives a string that decodeIdentifier returns unchanged.
C7_Truncation ==
    (/\ pc = "truncated"
     /\ HasPrefix(encoded)
     /\ Len(DeltaPortion(encoded)) >= 2
     /\ IsBase62Char(encoded[Len(encoded) - 1])
     /\ DigitValue(encoded[Len(encoded) - 1]) >= BOOTSTRING_THRESHOLD)
    => decoded = decodeArg

C7_Witness ==
    /\ pc = "truncated"
    /\ encoded # inputString
    /\ HasPrefix(encoded)
    /\ Len(DeltaPortion(encoded)) >= 4
    /\ IsBase62Char(encoded[Len(encoded) - 1])
    /\ DigitValue(encoded[Len(encoded) - 1]) >= BOOTSTRING_THRESHOLD
    /\ decodeArg = SubSeq(encoded, 1, Len(encoded) - 1)
    /\ decoded = decodeArg

C9_OutputStructure ==
    (pc = "encoded" /\ NoInvalidItem(inputString) /\ encoded # inputString) =>
        LET skel == Skeleton(inputString, format)
            head == BOOTSTRING_PREFIX \o skel
                    \o (IF Len(skel) > 0 THEN <<BOOTSTRING_DELIMITER>> ELSE <<>>)
            tail == [i \in 1..(Len(encoded) - Len(head)) |-> encoded[i + Len(head)]]
        IN /\ Len(encoded) >= Len(head)
           /\ SubSeq(encoded, 1, Len(head)) = head
           /\ \A i \in 1..Len(tail) : IsBase62Char(tail[i])
           /\ Cardinality({i \in 1..Len(tail) : DigitValue(tail[i]) < BOOTSTRING_THRESHOLD})
                = Len(inputString) - Len(skel)
           /\ Len(tail) > 0 => DigitValue(tail[Len(tail)]) < BOOTSTRING_THRESHOLD

C9_Witness ==
    /\ pc = "encoded"
    /\ format = "ASCII"
    /\ inputString = <<9731, 97, 0>>
    /\ encoded # inputString
    /\ SubSeq(encoded, 1, 6) = BOOTSTRING_PREFIX \o <<97, BOOTSTRING_DELIMITER>>
    /\ Len(encoded) > 8

\* C10 as stated, in its consequences: the basic skeleton emitted by
\* encodeBootstring never contains the delimiter character, and an encoded
\* string contains at most one delimiter after the prefix.
C10_DelimiterReserved ==
    (pc = "encoded" /\ NoInvalidItem(inputString) /\ encoded # inputString) =>
        LET skel == Skeleton(inputString, format)
            rest == AfterPrefix(encoded)
        IN /\ \A i \in 1..Len(skel) : skel[i] # BOOTSTRING_DELIMITER
           /\ Cardinality({i \in 1..Len(rest) : rest[i] = BOOTSTRING_DELIMITER}) <= 1

\* C10 amended: in both formats the delimiter character is continue-eligible,
\* so the basic skeleton may contain it; the digit runs never contain it, so
\* in an encoded string with a non-empty skeleton the delimiter written by
\* encodeBootstring is the last delimiter character after the prefix, and an
\* encoded string with an empty skeleton has no delimiter after the prefix.
C10_DelimiterIsLast ==
    (pc = "encoded" /\ NoInvalidItem(inputString) /\ encoded # inputString) =>
        LET skel == Skeleton(inputString, format)
            rest == AfterPrefix(encoded)
        IN /\ IsContinue(BOOTSTRING_DELIMITER, format)
           /\ LastDelimiter(rest) = (IF Len(skel) > 0 THEN Len(skel) + 1 ELSE 0)

C10_Witness ==
    /\ pc = "encoded"
    /\ NoInvalidItem(inputString)
    /\ encoded # inputString
    /\ \E i \in 1..Len(Skeleton(inputString, format)) :
           Skeleton(inputString, format)[i] = BOOTSTRING_DELIMITER
    /\ Len(DeltaPortion(encoded)) >= 2
    /\ LastDelimiter(AfterPrefix(encoded)) = Len(Skeleton(inputString, format)) + 1

\* r is non-empty, its first byte is in [A-Za-z_] and the others in [A-Za-z0-9_]
IsValidIdentifierBytes(r) ==
    /\ Len(r) > 0
    /\ (r[1] >= 65 /\ r[1] <= 90) \/ (r[1] >= 97 /\ r[1] <= 122) \/ r[1] = 95
    /\ \A i \in 2..Len(r) :
           \/ (r[i] >= 48 /\ r[i] <= 57)
           \/ (r[i] >= 65 /\ r[i] <= 90)
           \/ (r[i] >= 97 /\ r[i] <= 122)
           \/ r[i] = 95

\* the byte c, or '_' when c is not in [A-Za-z0-9_]
KeptOrUnderscore(c) ==
    IF (c >= 48 /\ c <= 57) \/ (c >= 65 /\ c <= 90) \/ (c >= 97 /\ c <= 122) \/ c = 95
    THEN c ELSE 95

\* C11: substitution validity: for every input byte string
\* makeValidIdentifierExtended returns a non-empty string whose first byte is
\* in [A-Za-z_] and whose other bytes are in [A-Za-z0-9_], and
\* makeValidIdentifier never returns an empty string.
C11_SubstitutionValid ==
    lastCall # NoCall =>
        /\ lastCall.sub => IsValidIdentifierBytes(lastCall.out)
        /\ lastCall.out # <<>>

C11_Witness ==
    /\ lastCall # NoCall
    /\ lastCall.sub
    /\ lastCall.in = <<48, 9731>>
    /\ lastCall.out = <<95, 48, 95, 95, 95>>

\* C12: substitution rule: for a non-empty input makeValidIdentifierExtended
\* keeps every byte in [A-Za-z0-9_] at its position and replaces every other
\* byte by one '_', except that a leading digit is kept behind an inserted
\* '_'; for an empty input the output is "_".
C12_SubstitutionRule ==
    (lastCall # NoCall /\ lastCall.sub) =>
        LET b == StdStringBytes(lastCall.in)
            kept == [i \in 1..Len(b) |-> KeptOrUnderscore(b[i])]
        IN lastCall.out =
               IF b = <<>> THEN <<95>>
               ELSE IF b[1] >= 48 /\ b[1] <= 57 THEN <<95>> \o kept
               ELSE kept

C14_InitialisedOnce ==
    [][/\ settingReads' <= 1
       /\ s_guard' = "done" => settingReads' = 1
       /\ s_guard = "done" =>
            /\ s_guard' = "done"
            /\ s_enableOmniTranscoding' = s_enableOmniTranscoding
            /\ settingReads' = settingReads
       /\ \A t \in DOMAIN thread' :
            thread'[t].pc = "returned" => thread'[t].flag = s_enableOmniTranscoding']_vars

C14_Witness ==
    /\ s_guard = "done"
    /\ settingReads = 1
    /\ envSetting # s_enableOmniTranscoding
    /\ \A t \in DOMAIN thread :
        thread[t].pc = "returned" /\ thread[t].flag = s_enableOmniTranscoding
    /\ Cardinality(DOMAIN thread) >= 2

\* C15: empty input: for both formats encodeIdentifier of the empty string
\* returns the bare prefix "tn__", which is non-empty and a legal identifier
\* of the format, and decodeIdentifier of that result is the empty string.
C15_EmptyInput ==
    (inputString = <<>> /\ pc \in {"encoded", "roundtrip", "truncated"}) =>
        /\ encoded = BOOTSTRING_PREFIX
        /\ encoded # <<>>
        /\ IsLegalIdentifier(encoded, format)
        /\ pc = "roundtrip" => (decoderCalled /\ decoded = <<>>)

C15_Witness ==
    /\ pc = "roundtrip"
    /\ inputString = <<>>
    /\ format = "UTF8_XID"
    /\ encoded = <<116, 110, 95, 95>>
    /\ decodeArg = encoded
    /\ decoded = <<>>

\* C16: engine round trip: for every string of Unicode scalar values and both
\* formats encodeBootstring succeeds, and decodeBootstring of its output
\* returns exactly the string, whether the skeleton is empty, holds '_',
\* is the whole string, or the same extended code point occurs several times.
C16_EngineRoundTrip ==
    (eng.entry = "encodeBootstring" /\ IsScalarString(eng.inputString)) =>
        /\ eng.pc \notin {"encodeFailed", "decodeFailed", "outOfBounds"}
        /\ eng.pc = "decoded" => eng.decoded = eng.inputString

\* the positions of inputString already placed when the third loop of
\* encodeBootstring is at index k of the sorted extendedCodes: the positions
\* of the skeleton and those of the entries before k
PlacedPositions(k) ==
    {p \in 0..(Len(eng.inputString) - 1) :
        IsContinue(AsUInt32(eng.inputString[p + 1]), eng.format)}
    \cup {eng.extendedCodes[j][2] : j \in 1..(k - 1)}

\* C17: delta decomposition: encodeBootstring processes the extended entries
\* in ascending (code point, original position) order, and for each one, with
\* P the number of code points already placed (skeleton size plus entries
\* processed so far), delta mod (P+1) is the number of already-placed
\* positions before the entry's position, a value in 0..P, and delta div
\* (P+1) is codePoint - previousCodePoint, which is never negative.
C17_DeltaDecomposition ==
    eng.pc = "delta" =>
        /\ \A j \in 1..(Len(eng.extendedCodes) - 1) :
              TupleLess(eng.extendedCodes[j], eng.extendedCodes[j + 1])
        /\ eng.emitted # <<>> =>
              LET e == eng.emitted[1]
                  placed == PlacedPositions(eng.k - 1)
                  P == Cardinality(placed)
                  before == Cardinality({p \in placed : p < e.codePosition})
              IN /\ e.codePoint = eng.extendedCodes[eng.k - 1][1]
                 /\ e.codePosition = eng.extendedCodes[eng.k - 1][2]
                 /\ e.prevCodePoint =
                        (IF eng.k = 2 THEN 0 ELSE eng.extendedCodes[eng.k - 2][1])
                 /\ e.encodedPoints = P
                 /\ e.delta % (P + 1) = before
                 /\ before \in 0..P
                 /\ e.delta \div (P + 1) = e.codePoint - e.prevCodePoint
                 /\ e.codePoint - e.prevCodePoint >= 0

C17_Witness ==
    /\ eng.pc = "delta"
    /\ eng.inputString = <<97, 9731, 0>>
    /\ eng.format = "ASCII"
    /\ eng.extendedCodes = <<<<0, 2>>, <<9731, 1>>>>
    /\ eng.k = 3
    /\ eng.emitted # <<>>
    /\ eng.emitted[1].delta = 9731 * 3 + 1

\* the number of skeleton entries decodeBootstring takes from its argument
SkeletonEntries == DelimiterPositionLoop(TfUtf8CodePointView(eng.decodeArg), 0, 0)

\* the index lower returned for values[j] (1-based j), once it is placed
IndexOf(j) == eng.indices[Len(eng.values) - j + 1]

\* C18: decode placement is a permutation: whenever decodeBootstring has read
\* its delta stream (digit streams chosen by an attacker included), the
\* reverse placement loop never fails and gives each of the N entries a
\* distinct slot in 0..N-1, so that every slot of the output array is
\* written exactly once, the tree is all-absent at the end, and the skeleton
\* code points keep their relative order in the output.
C18_PlacementPermutation ==
    /\ eng.pc # "outOfBounds"
    /\ eng.pc = "decodeFailed" => eng.calls = <<>>
    /\ eng.pc \in {"place", "decoded"} =>
          LET N == Len(eng.values)
          IN /\ Len(eng.indices) = N - eng.k
             /\ \A a \in 1..Len(eng.indices) : eng.indices[a] \in 0..(N - 1)
             /\ \A a, b \in 1..Len(eng.indices) : a # b => eng.indices[a] # eng.indices[b]
             /\ \A i \in 0..(N - 1) :
                   eng.writes[i] =
                       IF \E a \in 1..Len(eng.indices) : eng.indices[a] = i THEN 1 ELSE 0
             /\ \A j1, j2 \in (eng.k + 1)..SkeletonEntries :
                   j1 < j2 => IndexOf(j1) < IndexOf(j2)
             /\ eng.pc = "decoded" =>
                   /\ eng.k = 0
                   /\ \A i \in 0..(N - 1) : eng.writes[i] = 1 /\ sum(eng.tree, i) = 0
                   /\ \A idx \in DOMAIN eng.tree.tree : eng.tree.tree[idx] = 0
                   /\ \A j \in 1..N : eng.codePoints[IndexOf(j)] = eng.values[j][1]

C18_Witness ==
    /\ eng.pc = "decoded"
    /\ eng.entry = "decodeBootstring"
    /\ eng.decodeArg = <<97, 95, 50, 49>>
    /\ eng.values = <<<<97, 0>>, <<1, 0>>, <<1, 1>>>>
    /\ eng.indices = <<1, 0, 2>>
    /\ eng.decoded = <<1, 1, 97>>

\* the capacity the tree of the running call was constructed with
Capacity == TreeSize(eng.tree) - 1

\* C19: capacity bounds: in every encodeBootstring and decodeBootstring call
\* the tree has, from its construction on, a capacity equal to the number of
\* code points being processed; every index passed to increase, decrease or
\* sum is below the capacity, every rank passed to lower is between 1 and
\* the number of present slots, and every index lower returns, which is
\* used to write the output array, is below the capacity.
C19_CapacityBounds ==
    /\ eng.pc # "outOfBounds"
    /\ eng.pc \in {"mark", "delta", "encoded"} => Capacity = Len(eng.inputString)
    /\ (eng.pc = "encodeFailed" /\ eng.calls # <<>>) => Capacity = Len(eng.inputString)
    /\ eng.pc \in {"place", "decoded"} => Capacity = Len(eng.values)
    /\ (eng.pc = "decodeFailed" /\ eng.calls # <<>>) => Capacity = Len(eng.values)
    /\ \A c \in 1..Len(eng.calls) :
          /\ eng.calls[c].op \in {"increase", "decrease", "sum", "write"} =>
                (eng.calls[c].arg >= 0 /\ eng.calls[c].arg < Capacity)
          /\ eng.calls[c].op = "lower" =>
                (eng.calls[c].arg >= 1 /\ eng.calls[c].arg <= eng.calls[c].present)

C19_Witness ==
    /\ eng.pc = "place"
    /\ eng.decodeArg = <<97, 97, 95>>
    /\ Capacity = 2
    /\ eng.calls = <<[op |-> "lower", arg |-> 2, present |-> 2],
                     [op |-> "write", arg |-> 1],
                     [op |-> "decrease", arg |-> 1]>>

\* the sum of the per-slot counts of slots 0..i
RECURSIVE CountUpTo(_)
CountUpTo(i) == IF i < 0 THEN 0 ELSE counts[i] + CountUpTo(i - 1)

\* C20: prefix sums track presence: for a BinaryIndexedTree of capacity N,
\* after any sequence of increase(i) and decrease(i) calls with i < N in which
\* decrease is only applied to a slot whose count is positive, sum(i) equals,
\* for every i < N, the sum of the per-slot counts of slots 0..i.
C20_PrefixSums ==
    treeCall.op # "off" =>
        \A i \in DOMAIN counts : sum(bit, i) = CountUpTo(i)

C20_Witness ==
    /\ treeCall = [op |-> "decrease", arg |-> 1]
    /\ counts = [i \in 0..3 |-> IF i = 1 THEN 0 ELSE IF i = 2 THEN 2 ELSE 1]
    /\ sum(bit, 1) = 1
    /\ sum(bit, 3) = 4

\* the tree holds 0/1 markers
IsMarkerTree == \A i \in DOMAIN counts : counts[i] <= 1

\* T: the number of present slots
PresentSlots == Cardinality({i \in DOMAIN counts : counts[i] = 1})

\* C21: rank search, found case: for a tree of 0/1 markers with T present
\* slots and every k in 1..T, lower(k) returns the smallest index i < N with
\* sum(i) = k, which is the index of the k-th present slot.
C21_RankFound ==
    (treeCall.op = "lower" /\ IsMarkerTree /\ treeCall.arg <= PresentSlots) =>
        /\ treeCall.ret.ok
        /\ treeCall.ret.index \in DOMAIN counts
        /\ sum(bit, treeCall.ret.index) = treeCall.arg
        /\ \A j \in DOMAIN counts : j < treeCall.ret.index => sum(bit, j) # treeCall.arg
        /\ counts[treeCall.ret.index] = 1
        /\ CountUpTo(treeCall.ret.index) = treeCall.arg

C21_Witness ==
    /\ treeCall = [op |-> "lower", arg |-> 2, ret |-> [ok |-> TRUE, index |-> 3]]
    /\ counts = [i \in 0..3 |-> IF i = 1 \/ i = 3 THEN 1 ELSE 0]

\* C22: rank search, not-found case: for a tree of capacity N of 0/1 markers
\* with T present slots, lower(k) returns nullopt for every k > T, k = T + 1
\* and the all-absent tree included; it never returns an index >= N.
C22_RankNotFound ==
    (treeCall.op = "lower" /\ IsMarkerTree) =>
        /\ treeCall.arg > PresentSlots => ~treeCall.ret.ok
        /\ treeCall.ret.ok => treeCall.ret.index \in DOMAIN counts

\* increase(i) once for every i in 0..(n - 1), in ascending order
RECURSIVE IncreaseEach(_, _)
IncreaseEach(t, n) == IF n = 0 THEN t ELSE increase(IncreaseEach(t, n - 1), n - 1)

\* C23: bulk initialisation equals N increments: for every capacity N (0, 1
\* and N + 1 a power of two included) increaseAll() on a freshly constructed
\* tree leaves the internal array identical to the one of N calls
\* increase(i), i in 0..N-1, so that sum(i) = i + 1 for every i < N.
C23_IncreaseAllIsIncreaseEach ==
    treeCall.op = "increaseAll" =>
        LET N == TreeSize(bit) - 1
        IN /\ bit = IncreaseEach(BinaryIndexedTree(N), N)
           /\ \A i \in 0..(N - 1) : sum(bit, i) = i + 1

C23_Witness ==
    /\ treeCall.op = "increaseAll"
    /\ TreeSize(bit) = 4
    /\ bit.tree = [k \in 0..3 |-> IF k = 0 THEN 0 ELSE IF k = 2 THEN 2 ELSE 1]

\* the digit value decodeVariableLength reads from one item of the stream
DigitOf(c) == decodeBase62(StaticCastChar(AsUInt32(c)))

\* the index of the terminal digit of the digit run the stream starts with, 0
\* when the stream does not start with a complete run
RunEnd(stream) ==
    LET ends == {j \in 1..Len(stream) :
                    /\ DigitOf(stream[j]) < BOOTSTRING_THRESHOLD
                    /\ \A i \in 1..(j - 1) :
                          DigitOf(stream[i]) >= BOOTSTRING_THRESHOLD /\ DigitOf(stream[i]) < BASE62}
    IN IF ends = {} THEN 0 ELSE CHOOSE j \in ends : TRUE

\* the exact value of the digits d[k], d[k+1], ... with weights 1, 31, ...,
\* by Horner's rule from the last digit; 0 - 1 when it exceeds UINT64_MAX
RECURSIVE ExactValue(_, _)
ExactValue(d, k) ==
    IF k > Len(d) THEN 0
    ELSE LET h == ExactValue(d, k + 1)
         IN IF h < 0 \/ h > (UINT64_MAX - d[k]) \div (BASE62 - BOOTSTRING_THRESHOLD)
            THEN 0 - 1
            ELSE d[k] + (BASE62 - BOOTSTRING_THRESHOLD) * h

\* the exact value of the complete run the stream starts with
RunValue(stream) ==
    ExactValue([i \in 1..RunEnd(stream) |-> DigitOf(stream[i])], 1)

\* C24: variable-length integer round trip: for every n of the accumulator,
\* decodeVariableLength on the run written by encodeVariableLength(n) returns
\* n and leaves the iterator right after the last digit of the run, also
\* when further runs follow in the stream.
C24_VarLenRoundTrip ==
    (vl.entry = "encodeVariableLength" /\ vl.pc \in {"returned", "failed"}) =>
        /\ vl.pc = "returned"
        /\ vl.number = vl.n
        /\ vl.it = Len(vl.oss) + 1

C24_Witness ==
    /\ vl.entry = "encodeVariableLength"
    /\ vl.pc = "returned"
    /\ vl.n = UINT64_MAX
    /\ vl.follow = <<86, 49>>
    /\ Len(vl.oss) > 2
    /\ vl.number = UINT64_MAX
    /\ vl.it = Len(vl.stream) - 1

\* C25: self-delimiting digit runs: encodeVariableLength(n) writes zero or
\* more characters with digit value in 31..61 and then exactly one with digit
\* value in 0..30; it writes a single character exactly when n < 31; two
\* different integers never give the same run.
C25_SelfDelimiting ==
    (vl.entry = "encodeVariableLength" /\ vl.pc # "encode") =>
        LET run == vl.oss
            L == Len(run)
        IN /\ L >= 1
           /\ \A i \in 1..L : IsBase62Char(run[i])
           /\ \A i \in 1..(L - 1) :
                 DigitValue(run[i]) >= BOOTSTRING_THRESHOLD /\ DigitValue(run[i]) < BASE62
           /\ DigitValue(run[L]) >= 0 /\ DigitValue(run[L]) < BOOTSTRING_THRESHOLD
           /\ (L = 1) <=> (vl.n < BOOTSTRING_THRESHOLD)
           /\ \A m \in VlNumbers : m # vl.n => encodeVariableLength(m) # run

C25_Witness ==
    /\ vl.entry = "encodeVariableLength"
    /\ vl.pc = "encoded"
    /\ vl.n = 62
    /\ vl.oss = <<86, 49>>

\* C26: no wrapped integers on decode: whenever decodeVariableLength returns
\* a number, it is the exact value sum(digit_i * 31^i) of the run consumed
\* and neither the accumulator nor the weight has wrapped; whenever the exact
\* value of the run exceeds the largest accumulator value the function
\* fails; it never reports overflow for a run whose exact value fits.
C26_NoWrappedIntegers ==
    vl.pc \in {"decode", "returned", "failed"} =>
        /\ ~vl.wrapped
        /\ vl.pc = "returned" =>
              /\ RunEnd(vl.stream) = vl.it - 1
              /\ vl.digits = [i \in 1..RunEnd(vl.stream) |-> DigitOf(vl.stream[i])]
              /\ RunValue(vl.stream) >= 0
              /\ vl.number = RunValue(vl.stream)
        /\ (vl.pc \in {"returned", "failed"} /\ RunEnd(vl.stream) > 0) =>
              IF RunValue(vl.stream) < 0
              THEN vl.pc = "failed" /\ vl.reason = "overflow"
              ELSE vl.pc = "returned"

C26_Witness ==
    /\ vl.entry = "decodeVariableLength"
    /\ vl.pc = "failed"
    /\ vl.reason = "overflow"
    /\ vl.stream = <<86, 86, 86, 86, 86, 85>>
    /\ vl.it = 7
    /\ vl.number = 31 * (1 + 31 + 961 + 29791 + 923521)

RECURSIVE QuotientSum(_, _, _)
QuotientSum(cps, it, decodedPoints) ==
    IF it > Len(cps) THEN <<>>
    ELSE LET ret == decodeVariableLength(cps, it)
         IN IF ~ret.ok THEN <<>>
            ELSE <<ret.number \div (decodedPoints + 1)>>
                 \o QuotientSum(cps, ret.it, decodedPoints + 1)

\* C27: decoded code points stay in range: whenever decodeBootstring has read
\* its argument successfully, each code point it records for a delta is the
\* exact running sum of the quotients delta div (decodedCount + 1) and is at
\* most 0x10FFFF; a stream whose running sum exceeds that makes the decoding
\* fail, so that decodeIdentifier returns its input unchanged.
C27_CodePointsInRange ==
    eng.pc \in {"place", "decoded"} =>
        LET cps == TfUtf8CodePointView(eng.decodeArg)
            first == IF SkeletonEntries > 0 THEN SkeletonEntries + 2 ELSE 1
            q == QuotientSum(cps, first, SkeletonEntries)
        IN \A j \in 1..Len(q) :
              /\ eng.values[SkeletonEntries + j][1] <= MAX_CODE_POINT
              /\ eng.values[SkeletonEntries + j][1] =
                    q[j] + (IF j = 1 THEN 0 ELSE eng.values[SkeletonEntries + j - 1][1])

\* C29: encoding is idempotent: for every string s of Unicode scalar values
\* and both formats f, encodeIdentifier(encodeIdentifier(s, f), f) is
\* encodeIdentifier(s, f): a transcoded name is not transcoded again.
C29_Idempotent ==
    (pc = "reencoded" /\ IsScalarString(inputString)) => reencoded = encoded

\* C30: every call of the transcoding returns: each loop of the tree
\* operations, the digit loop of decodeVariableLength and the loops of
\* encodeBootstring and decodeBootstring exit after finitely many steps.
C30_Termination == Called ~> Returned

\* the loop of increase(0) on a tree constructed with capacity 4 has exited
\* after its iterations at the entries 1, 2 and 4
C30_Witness ==
    /\ loop.pc = "exit"
    /\ TreeSize(loop.tree) = 5
    /\ loop.idx = 8
    /\ loop.tree.tree[1] = 1
    /\ loop.tree.tree[2] = 1
    /\ loop.tree.tree[4] = 1

====
